---- MODULE Spec2Model ----
(***************************************************************************)
(* Model of the DNS failover controller, class DNSFailoverSystem           *)
(* (src/IMMEDIATE_FIX_FOR_LESLIE.md, lines 166-922).                       *)
(*                                                                         *)
(* One Node.js event loop: every action below is one run-to-completion     *)
(* segment of JavaScript (from a callback's start, or from the resumption  *)
(* of an await, to the next await on a network call).  Promise             *)
(* continuations that need no I/O run as microtasks and therefore belong   *)
(* to the segment that resolved them.                                      *)
(*                                                                         *)
(* Arithmetic: response times are whole milliseconds and the rolling       *)
(* average is kept in whole milliseconds (the JavaScript uses doubles);    *)
(* uptime is kept as an exact fraction.                                    *)
(*                                                                         *)
(* The module also models the propagation verifier, class DNSVerifier      *)
(* (src/dns-verifier.js): one call of verify(), its polling timer and the  *)
(* comprehensive checks it starts.  The verifier and the controller share  *)
(* no state; each specification below runs one of them and leaves the      *)
(* other as constructed.                                                   *)
(***************************************************************************)
EXTENDS Integers, Sequences, FiniteSets, TLC

\* ------------------------------------------------------------------ bounds
\* The model follows the controller in two kinds of network.  In an
\* "unreliable" network probes may fail and timers may fire while a cycle
\* is in flight; such a run has at most MaxFaultyCycles cycles and every
\* successful probe takes NominalResponseTime.  In a "steady" network every
\* probe succeeds, takes any of ResponseTimes, and cycles do not overlap;
\* such a run has at most MaxCycles cycles.
\* performHealthChecks invocations in a run in a steady network
MaxCycles == 11
\* performHealthChecks invocations in a run in an unreliable network
MaxFaultyCycles == 6
\* failed probes in one run of the model
MaxFailedProbes == 4
\* performHealthChecks invocations in flight at the same time
MaxInFlight == 2
\* performHealthChecks invocations in a run of ShutdownSpec
MaxShutdownCycles == 3
\* performHealthChecks invocations in a run of HistorySpec
MaxHistoryCycles == 3
\* polling timer callbacks in one call of verify()
MaxTicks == 3
\* timer callbacks awaiting their comprehensive check at one time
MaxChecksInFlight == 2
\* CNAME records in a provider's zone
MaxRecords == 3
\* health checks of the monitor in one run
MaxMonitorChecks == 5
\* calls of handleStatusChange awaiting an alert at one time
MaxHandlers == 2
\* calls of warmupDNSCache and resolveDNSWithCache in one run
MaxDnsCalls == 3
\* the clock of a run of the DNS cache, in units of 100 ms, stops here
MaxCacheClock == 4000
\* deployments the demo server accepts in one run
MaxDeployments == 3
\* the clock of a run, in units of 100 ms, starts at 0 and stops here
MaxClock == 320
\* the latest time at which the deployment of a run is posted
MaxDeployClock == 2
\* SelectionSpec applies evaluateFailover to arrays of SelectEndpoints
\* endpoints whose average response times are at most MaxAverage
SelectEndpoints == 3
MaxAverage == 3

\* -------------------------------------------------------- program constants
\* config.failoverThreshold / config.recoveryThreshold defaults
FailoverThreshold == 2
RecoveryThreshold == 3
\* shouldOptimizeRoute: minimum consecutiveSuccesses of the active endpoint
StableSuccesses == 10
\* this.endpoints has two entries, Primary (1) and Secondary (2)
NumEndpoints == 2
\* updateEndpointStatus: uptime is computed over healthHistory.slice(-100)
UptimeWindow == 100
\* pruneFailoverHistory keeps the last 100 records
FailoverHistoryCap == 100

EndpointIds == 1..NumEndpoints
EndpointName(e) == IF e = 1 THEN "Primary" ELSE "Secondary"

\* this.providers: the three provider configurations
ProviderNames == {"Cloudflare", "Netlify", "AWS Route53"}

\* the providers whose update awaits HTTP calls (updateCloudflare,
\* updateNetlify); updateRoute53 awaits nothing
NetworkProviders == {"Cloudflare", "Netlify"}

\* response times (ms) a successful probe may report
ResponseTimes == {1, 3}
\* the response time of every successful probe in an unreliable network
NominalResponseTime ==
  CHOOSE r \in ResponseTimes : \A q \in ResponseTimes : r <= q

VARIABLES
  network,              \* the kind of network of this run
  phase,                \* position in initialize(): constructed, verified,
                        \* dnsChecked, running, failed; then stopped (stop()
                        \* has returned), exited (process.exit was called)
  available,            \* provider.available, per provider (undefined = FALSE)
  endpoints,            \* this.endpoints
  currentEndpoint,      \* this.currentEndpoint (index into endpoints)
  isFailingOver,        \* this.isFailingOver
  healthHistory,        \* this.healthHistory
  failoverHistory,      \* this.failoverHistory
  healthCheckInterval,  \* timer handle: "null", "active", "cleared"
  fastCheckInterval,    \* timer handle: "null", "active", "cleared"
  cycles,               \* performHealthChecks invocations in flight
  emitted,              \* events emitted by the last step
  started,              \* performHealthChecks invocations so far
  failedProbes,         \* failed probes so far
  attempts,             \* performFailover invocations so far
  lastAttempt,          \* the arguments of the last performFailover invocation
  probeRun,             \* per endpoint: the current run of equal probe results
  verifyPc,             \* DNSVerifier: position in verify(): constructed,
                        \* initialCheck, polling, settled
  deadlinePassed,       \* Date.now() - startTime >= config.timeout
  checkInterval,        \* verify()'s timer handle: "null", "active", "cleared"
  lastCheck,            \* verify()'s lastCheck: Null or <<check>>
  checksInFlight,       \* timer callbacks awaiting performComprehensiveCheck
  ticks,                \* timer callbacks so far
  reports,              \* report files written by generateFinalReport
  verifyResult,         \* the settlement of the promise verify() returned
  provider,             \* DNS provider: the class of the provider object
  credentialSources,    \* what each credential source holds for the provider
  credentials,          \* this.credentials: "null", "complete", "incomplete"
  zone,                 \* the CNAME records the provider's API holds
  consulted,            \* credential sources the last loadCredentials read
  requests,             \* record requests the last createRecord sent
  returned,             \* what the last call on the provider returned
  managerPc,            \* DNSManager: the call configureDNS() awaits:
                        \* constructed, healthCheck, createRecord,
                        \* verifyDNSPropagation, useNetlifyRedirect,
                        \* createAlternativeSubdomain; then returned
  providerIndex,        \* configureDNS's i, from 1; 0 before the loop
  alternative,          \* createAlternativeSubdomain's position, from 1
  operations,           \* the calls made on the providers, in order
  failedProviders,      \* providers for which attemptProvider returned false
  monitoringStarts,     \* calls of monitoring.startMonitoring
  configureResult,      \* what configureDNS() returned
  clock,                \* Date.now(), in units of 100 ms
  deployResponse,       \* the body of the answer to POST /deploy, or Null
  statusResponse,       \* the body of the last answer to GET /status, or
                        \* Null
  fixerPc,              \* FOGGDNSFixer: the step execute() awaits:
                        \* constructed, diagnosis, dns_fix, verification,
                        \* backup, monitoring, report; then returned
  steps,                \* this.results.steps
  finalStatus,          \* this.results.finalStatus
  propagationPc,        \* DNSManager.verifyDNSPropagation: the call it
                        \* awaits: idle, resolveCname, verifyHTTPAccess,
                        \* sleep; then returned
  startTime,            \* verifyDNSPropagation's startTime
  propagationResult,    \* what verifyDNSPropagation returned
  consecutiveFailures,  \* DNSMonitor: this.consecutiveFailures
  lastStatus,           \* this.lastStatus: "null", "healthy", "unhealthy"
  monitorChecks,        \* this.checks: overall.healthy of each result
  handlers,             \* calls of handleStatusChange awaiting sendAlert
  alerts,               \* the alerts handed to the channels, in order
  deploymentState,      \* demo server: deploymentState
  processes,            \* the calls of startDeploymentProcess in flight,
                        \* each at the sleep it awaits
  accepted,             \* POST /api/deploy requests answered with success
  postResponse,         \* the status of the last answer to POST /api/deploy
  emits,                \* what io.emit has sent, in order
  dnsCache,             \* PerformanceOptimizer: dnsCache
  dnsPending,           \* the dns.resolve4 calls awaited
  dnsCalls,             \* calls of warmupDNSCache and resolveDNSWithCache
  dnsReturn             \* how the last call, or its lookup, ended

failoverVars ==
  <<network, phase, available, endpoints, currentEndpoint, isFailingOver,
    healthHistory, failoverHistory, healthCheckInterval,
    fastCheckInterval, cycles, emitted, started, failedProbes,
    attempts, lastAttempt, probeRun>>

verifierVars ==
  <<verifyPc, deadlinePassed, checkInterval, lastCheck, checksInFlight,
    ticks, reports, verifyResult>>

\* the state a step of the controller leaves alone, and the state a step of
\* the verifier leaves alone
providerVars ==
  <<provider, credentialSources, credentials, zone, consulted, requests,
    returned>>

managerVars ==
  <<managerPc, providerIndex, alternative, operations, failedProviders,
    monitoringStarts, configureResult>>

\* the state of the smaller programs: the Netlify functions
functionVars == <<deployResponse, statusResponse>>
\* the orchestrator
fixerVars == <<fixerPc, steps, finalStatus>>
\* one call of verifyDNSPropagation
propagationVars == <<propagationPc, startTime, propagationResult>>
\* the monitor
monitorVars ==
  <<consecutiveFailures, lastStatus, monitorChecks, handlers, alerts>>
\* the demo server
serverVars == <<deploymentState, processes, accepted, postResponse, emits>>
\* the DNS cache of PerformanceOptimizer
cacheVars == <<dnsCache, dnsPending, dnsCalls, dnsReturn>>
serviceVars ==
  <<clock, functionVars, fixerVars, propagationVars, monitorVars,
    serverVars, cacheVars>>

outsideFailover == <<verifierVars, providerVars, managerVars, serviceVars>>
outsideVerifier == <<failoverVars, providerVars, managerVars, serviceVars>>
outsideProvider == <<failoverVars, verifierVars, managerVars, serviceVars>>
\* DNSManager works on its first provider
outsideManager == <<failoverVars, verifierVars, serviceVars>>
\* the controller, the verifier, the providers and the manager
coreVars == <<failoverVars, verifierVars, providerVars, managerVars>>

\* the state a step of each of the smaller programs leaves alone, the
\* clock apart
outsideFunctions ==
  <<coreVars, fixerVars, propagationVars, monitorVars, serverVars,
    cacheVars>>
outsideFixer ==
  <<coreVars, clock, functionVars, propagationVars, monitorVars, serverVars,
    cacheVars>>
outsidePropagation ==
  <<coreVars, functionVars, fixerVars, monitorVars, serverVars, cacheVars>>
outsideMonitor ==
  <<coreVars, clock, functionVars, fixerVars, propagationVars, serverVars,
    cacheVars>>
outsideServer ==
  <<coreVars, functionVars, fixerVars, propagationVars, monitorVars,
    cacheVars>>
outsideCache ==
  <<coreVars, functionVars, fixerVars, propagationVars, monitorVars,
    serverVars>>

vars == <<coreVars, serviceVars>>

\* ----------------------------------------------------------------- helpers
RECURSIVE GCD(_, _)
GCD(a, b) == IF b = 0 THEN a ELSE GCD(b, a % b)

\* a fraction num/den in lowest terms
Fraction(n, d) ==
  LET g == GCD(n, d) IN
  IF n = 0 THEN [num |-> 0, den |-> 1] ELSE [num |-> n \div g, den |-> d \div g]

\* the last n elements of s: Array.prototype.slice(-n)
SliceLast(s, n) ==
  IF Len(s) <= n THEN s ELSE SubSeq(s, Len(s) - n + 1, Len(s))

\* the entries of one endpoint as the constructor builds them
NewEndpoint ==
  [healthy |-> TRUE, consecutiveFailures |-> 0, consecutiveSuccesses |-> 0,
   avgResponseTime |-> 0, uptime |-> [num |-> 100, den |-> 1]]

NoAttempt ==
  [from |-> 0, to |-> 0, reason |-> "none", pending |-> {}, results |-> {}]

NoRun ==
  [kind |-> "none", len |-> 0, startHealthy |-> TRUE, flips |-> 0, events |-> 0]

\* ------------------------------------------------- updateEndpointStatus
\* the rolling average of the response time
RollingAverage(avg, rt) ==
  IF avg = 0 THEN rt ELSE (avg * 9 + rt) \div 10

\* mutants of ShouldMarkFailed: the healthy test dropped; the threshold one
\* too low
ShouldMarkFailed_Unguarded(ep) ==
  ep.consecutiveFailures >= FailoverThreshold

ShouldMarkFailed_Early(ep) ==
  ep.healthy /\ ep.consecutiveFailures >= FailoverThreshold - 1

\* "Mark as unhealthy after failure threshold"
ShouldMarkFailed(ep) ==
  ep.healthy /\ ep.consecutiveFailures >= FailoverThreshold

\* mutant of ShouldMarkRecovered: > for >=
ShouldMarkRecovered_Late(ep) ==
  ~ep.healthy /\ ep.consecutiveSuccesses > RecoveryThreshold

\* "Mark as healthy after recovery threshold"
ShouldMarkRecovered(ep) ==
  ~ep.healthy /\ ep.consecutiveSuccesses >= RecoveryThreshold

\* "Calculate uptime"
Uptime(ep, hist, e) ==
  LET n == Len(SliceLast(hist, UptimeWindow))
      recent == SliceLast(hist, UptimeWindow)
      healthyChecks ==
        Cardinality({i \in 1..n :
          \E j \in 1..Len(recent[i].checks) :
            /\ recent[i].checks[j].endpoint = e
            /\ recent[i].checks[j].healthy})
  IN IF n > 0 THEN Fraction(healthyChecks * 100, n) ELSE ep.uptime

\* updateEndpointStatus(endpoint, check): the endpoint afterwards and the
\* event emitted ("none" when no event is)
updateEndpointStatus(ep, healthy, rt, hist, e) ==
  LET counted ==
        IF healthy
        THEN [ep EXCEPT !.consecutiveFailures = 0,
                        !.consecutiveSuccesses = @ + 1,
                        !.avgResponseTime =
                           IF rt # 0 THEN RollingAverage(@, rt) ELSE @]
        ELSE [ep EXCEPT !.consecutiveSuccesses = 0,
                        !.consecutiveFailures = @ + 1]
      recovers == healthy /\ ShouldMarkRecovered(counted)
      fails == ~healthy /\ ShouldMarkFailed(counted)
      flagged ==
        IF recovers THEN [counted EXCEPT !.healthy = TRUE]
        ELSE IF fails THEN [counted EXCEPT !.healthy = FALSE]
        ELSE counted
  IN [ep |-> [flagged EXCEPT !.uptime = Uptime(flagged, hist, e)],
      event |-> IF recovers THEN "endpoint-recovered"
                ELSE IF fails THEN "endpoint-failed" ELSE "none"]

\* ----------------------------------------------------- evaluateFailover
\* mutant of FirstByKey: the sort dropped
FirstByKey_Unsorted(S, key) ==
  CHOOSE e \in S : \A f \in S : e <= f

\* the first element of S sorted by key, ties in array order (a stable sort
\* of a filtered array)
FirstByKey(S, key) ==
  CHOOSE e \in S :
    \A f \in S : key[e] < key[f] \/ (key[e] = key[f] /\ e <= f)

\* mutant of HealthyAlternatives: the healthy test dropped
HealthyAlternatives_AnyOther(eps, cur) ==
  {e \in DOMAIN eps : e # cur}

\* failure path: this.endpoints.filter(e => e.healthy && e !== current)
HealthyAlternatives(eps, cur) ==
  {e \in DOMAIN eps : eps[e].healthy /\ e # cur}

\* findBestEndpoint: the score of an endpoint, times uptime.den
ScoreNum(ep) ==
  (100 * ep.uptime.den - ep.uptime.num) * 10
    + (ep.avgResponseTime + ep.consecutiveFailures * 100) * ep.uptime.den

ScoreLess(a, b) == ScoreNum(a) * b.uptime.den < ScoreNum(b) * a.uptime.den

\* findBestEndpoint: the healthy endpoint with the lowest score, 0 for null
findBestEndpoint(eps) ==
  LET healthyEndpoints == {e \in DOMAIN eps : eps[e].healthy} IN
  IF healthyEndpoints = {} THEN 0
  ELSE CHOOSE e \in healthyEndpoints :
         \A f \in healthyEndpoints :
           \/ ScoreLess(eps[e], eps[f])
           \/ (~ScoreLess(eps[f], eps[e]) /\ e <= f)

\* mutant of IsStable: the test of consecutiveSuccesses dropped
IsStable_Always(ep) == TRUE

\* "Only optimize if current endpoint has been stable"
IsStable(ep) == ep.consecutiveSuccesses >= StableSuccesses

\* "Switch if new endpoint is significantly better (50% faster)":
\* bestAvg < currentAvg * 0.5
SignificantlyBetter(bestAvg, currentAvg) == 2 * bestAvg < currentAvg

shouldOptimizeRoute(eps, cur) ==
  LET bestEndpoint == findBestEndpoint(eps) IN
  /\ IsStable(eps[cur])
  /\ bestEndpoint # 0
  /\ bestEndpoint # cur
  /\ SignificantlyBetter(eps[bestEndpoint].avgResponseTime,
                         eps[cur].avgResponseTime)

\* evaluateFailover past its guard: what it decides
Evaluate(eps, cur) ==
  IF ~eps[cur].healthy
  THEN LET healthyEndpoints == HealthyAlternatives(eps, cur) IN
       IF healthyEndpoints # {}
       THEN [kind |-> "failover",
             to |-> FirstByKey(healthyEndpoints,
                      [e \in DOMAIN eps |-> eps[e].avgResponseTime])]
       ELSE [kind |-> "no-healthy-endpoints", to |-> 0]
  ELSE IF shouldOptimizeRoute(eps, cur)
  THEN LET bestEndpoint == findBestEndpoint(eps) IN
       IF bestEndpoint # 0 /\ bestEndpoint # cur
       THEN [kind |-> "failover", to |-> bestEndpoint]
       ELSE [kind |-> "keep", to |-> 0]
  ELSE [kind |-> "keep", to |-> 0]

\* mutant of evaluateFailover: the isFailingOver guard dropped
evaluateFailover_Unguarded(eps, cur, failingOver) == Evaluate(eps, cur)

\* evaluateFailover: "Don't failover if already in progress"
evaluateFailover(eps, cur, failingOver) ==
  IF failingOver THEN [kind |-> "skip", to |-> 0] ELSE Evaluate(eps, cur)

\* ------------------------------------------------------ provider updates
\* startTime is a const of updateDNSProvider only; updateCloudflare and
\* updateNetlify read it as a free name, which no scope declares
StartTimeDeclared == FALSE

\* updateCloudflare / updateNetlify: the HTTP calls throw, or the return
\* expression Date.now() - startTime is evaluated
updateCloudflare(apiOk) ==
  IF ~apiOk THEN [threw |-> TRUE, success |-> FALSE]
  ELSE IF ~StartTimeDeclared THEN [threw |-> TRUE, success |-> FALSE]
  ELSE [threw |-> FALSE, success |-> TRUE]

updateNetlify(apiOk) ==
  IF ~apiOk THEN [threw |-> TRUE, success |-> FALSE]
  ELSE IF ~StartTimeDeclared THEN [threw |-> TRUE, success |-> FALSE]
  ELSE [threw |-> FALSE, success |-> TRUE]

\* updateRoute53: the placeholder returns success
updateRoute53 == [threw |-> FALSE, success |-> TRUE]

\* updateDNSProvider and the .then/.catch of performFailover: the entry of
\* failoverRecord.providers for provider p
ProviderOutcome(p, apiOk) ==
  LET r == IF p = "Cloudflare" THEN updateCloudflare(apiOk)
           ELSE IF p = "Netlify" THEN updateNetlify(apiOk)
           ELSE updateRoute53
  IN [provider |-> p, success |-> (~r.threw /\ r.success)]

\* mutant of AttemptSucceeded: every provider must succeed
AttemptSucceeded_All(results) == \A r \in results : r.success

\* performFailover: "Check if at least one provider succeeded"
AttemptSucceeded(results) == \E r \in results : r.success

\* mutant of StartAttempt: the provider.available test dropped
StartAttempt_AllProviders(eps, cur, to) ==
  [from |-> cur, to |-> to,
   reason |-> IF eps[cur].healthy THEN "optimization" ELSE "failure",
   pending |-> NetworkProviders,
   results |-> {ProviderOutcome(p, TRUE) :
                  p \in ProviderNames \ NetworkProviders}]

\* performFailover up to its await: the attempt it starts
StartAttempt(eps, cur, to) ==
  [from |-> cur, to |-> to,
   reason |-> IF eps[cur].healthy THEN "optimization" ELSE "failure",
   pending |-> {p \in NetworkProviders : available[p]},
   results |-> {ProviderOutcome(p, TRUE) :
                  p \in {q \in ProviderNames \ NetworkProviders : available[q]}}]

\* mutant of NextActive: the switch made whatever the providers answered
NextActive_Always(att, cur) == att.to

\* performFailover: the active endpoint after the updates have settled
NextActive(att, cur) ==
  IF AttemptSucceeded(att.results) THEN att.to ELSE cur

\* the failoverRecord pushed in the finally block
FailoverRecord(att) ==
  [from |-> EndpointName(att.from), to |-> EndpointName(att.to),
   reason |-> att.reason, success |-> AttemptSucceeded(att.results),
   providers |-> att.results]

\* mutant of pruneFailoverHistory: slice(0, 100) for slice(-100)
pruneFailoverHistory_KeepsFirst(h) ==
  IF Len(h) > FailoverHistoryCap THEN SubSeq(h, 1, FailoverHistoryCap) ELSE h

\* pruneFailoverHistory
pruneFailoverHistory(h) ==
  IF Len(h) > FailoverHistoryCap THEN SliceLast(h, FailoverHistoryCap) ELSE h

\* pruneHealthHistory: entries whose timestamp is an hour old are dropped
\* (old: the timestamp taken when the cycle began is more than an hour
\* back; no run of Spec lasts that long)
pruneHealthHistory(h) == SelectSeq(h, LAMBDA x : ~x.old)

\* ------------------------------------------------------- event handlers
\* on 'endpoint-failed': start the fast timer unless one is set
OnEndpointFailed(fast) == IF fast = "null" THEN "active" ELSE fast

\* on 'failover-completed': clear the fast timer
OnFailoverCompleted(fast) == "null"

\* a reference to a check that is null; a reference to a check is the
\* one-element sequence of it
Null == <<>>

\* what verify() resolves or rejects with: nothing yet
Pending == [status |-> "pending", finalState |-> Null]

\* DNSVerifier's constructor; verify() has not been called
NewVerifier ==
  /\ verifyPc = "constructed"
  /\ deadlinePassed = FALSE
  /\ checkInterval = "null"
  /\ lastCheck = Null
  /\ checksInFlight = 0
  /\ ticks = 0
  /\ reports = 0
  /\ verifyResult = Pending

\* no credential source holds anything
NoCredentials == [environment |-> "absent", file |-> "absent"]

\* no call on the provider has returned
NoCall == [op |-> "none", threw |-> FALSE, ok |-> "false"]

\* a provider's constructor (PorkbunProvider's, the first of the chain), in
\* an environment without credentials and with an empty zone
NewProvider ==
  /\ provider = "Porkbun"
  /\ credentialSources = NoCredentials
  /\ credentials = "null"
  /\ zone = <<>>
  /\ consulted = <<>>
  /\ requests = <<>>
  /\ returned = NoCall

\* configureDNS() has not returned
NoResult == [success |-> FALSE, method |-> "none", url |-> "none"]

\* DNSManager's constructor
NewManager ==
  /\ managerPc = "constructed"
  /\ providerIndex = 0
  /\ alternative = 0
  /\ operations = <<>>
  /\ failedProviders = {}
  /\ monitoringStarts = 0
  /\ configureResult = NoResult

\* the smaller programs before they have run
NewServices ==
  /\ clock = 0
  /\ deployResponse = <<>>
  /\ statusResponse = <<>>
  /\ fixerPc = "constructed"
  /\ steps = <<>>
  /\ finalStatus = "null"
  /\ propagationPc = "idle"
  /\ startTime = 0
  /\ propagationResult = [success |-> FALSE, method |-> "none"]
  /\ consecutiveFailures = 0
  /\ lastStatus = "null"
  /\ monitorChecks = <<>>
  /\ handlers = {}
  /\ alerts = <<>>
  /\ deploymentState = [isDeploying |-> FALSE, progress |-> 0,
                        activeAgent |-> "null", completedAgents |-> <<>>,
                        lastDeployment |-> Null,
                        currentVersion |-> <<2, 4, 1>>]
  /\ processes = {}
  /\ accepted = 0
  /\ postResponse = 0
  /\ emits = <<>>
  /\ dnsCache = [domain \in {"fogg-calendar.netlify.app", "candlefish.ai"}
                   |-> <<>>]
  /\ dnsPending = {}
  /\ dnsCalls = 0
  /\ dnsReturn = [domain |-> "none", addresses |-> "none",
                  threw |-> FALSE, lookup |-> FALSE]

\* DNSFailoverSystem's constructor
NewFailoverSystem ==
  /\ network \in {"unreliable", "steady"}
  /\ phase = "constructed"
  /\ available = [p \in ProviderNames |-> FALSE]
  /\ endpoints = [e \in EndpointIds |-> NewEndpoint]
  /\ currentEndpoint = 1
  /\ isFailingOver = FALSE
  /\ healthHistory = <<>>
  /\ failoverHistory = <<>>
  /\ healthCheckInterval = "null"
  /\ fastCheckInterval = "null"
  /\ cycles = <<>>
  /\ emitted = {}
  /\ started = 0
  /\ failedProbes = 0
  /\ attempts = 0
  /\ lastAttempt = NoAttempt
  /\ probeRun = [e \in EndpointIds |-> NoRun]

\* constructor
Init ==
  /\ NewFailoverSystem
  /\ NewVerifier
  /\ NewProvider
  /\ NewManager
  /\ NewServices

\* ------------------------------------------------------------ initialize
\* mutant of AfterVerify: the throw dropped
AfterVerify_NoThrow(avail) == "verified"

\* verifyProviders: "No DNS providers available" is thrown when no provider
\* is available, and initialize() rejects
AfterVerify(avail) == IF avail = {} THEN "failed" ELSE "verified"

\* verifyProviders: testProviderAPI decides provider.available
verifyProviders ==
  /\ phase = "constructed"
  /\ \E avail \in SUBSET ProviderNames :
       /\ available' = [p \in ProviderNames |-> p \in avail]
       /\ phase' = AfterVerify(avail)
  /\ emitted' = {}
  /\ UNCHANGED <<outsideFailover,
                 network, endpoints, currentEndpoint, isFailingOver, healthHistory,
                 failoverHistory, healthCheckInterval, fastCheckInterval,
                 cycles, started, failedProbes, attempts, lastAttempt,
                 probeRun>>

\* checkCurrentDNS: the CNAME found is the target of endpoint m, or of no
\* endpoint (m = 0), or the lookup throws (m = 0 as well)
checkCurrentDNS ==
  /\ phase = "verified"
  /\ \E m \in {0} \cup EndpointIds :
       currentEndpoint' = IF m # 0 THEN m ELSE currentEndpoint
  /\ phase' = "dnsChecked"
  /\ emitted' = {}
  /\ UNCHANGED <<outsideFailover,
                 network, available, endpoints, isFailingOver, healthHistory,
                 failoverHistory, healthCheckInterval, fastCheckInterval,
                 cycles, started, failedProbes, attempts, lastAttempt,
                 probeRun>>

\* a performHealthChecks invocation up to its first await: the probe of the
\* first endpoint is in flight
NewCycle ==
  [i |-> 1, checks |-> <<>>, pc |-> "probe", attempt |-> NoAttempt,
   old |-> FALSE]

\* startHealthMonitoring, setupEventHandlers and the end of initialize():
\* the immediate health check, the base timer, the event handlers
startHealthMonitoring ==
  /\ phase = "dnsChecked"
  /\ cycles' = Append(cycles, NewCycle)
  /\ started' = started + 1
  /\ healthCheckInterval' = "active"
  /\ fastCheckInterval' = "null"
  /\ phase' = "running"
  /\ emitted' = {"initialized"}
  /\ UNCHANGED <<outsideFailover,
                 network, available, endpoints, currentEndpoint, isFailingOver,
                 healthHistory, failoverHistory, failedProbes, attempts,
                 lastAttempt, probeRun>>

\* ---------------------------------------------------------------- timers
CanStartCycle ==
  IF network = "steady"
  THEN started < MaxCycles /\ Len(cycles) = 0
  ELSE started < MaxFaultyCycles /\ Len(cycles) < MaxInFlight

\* the setInterval callback of startHealthMonitoring
BaseTimerFires ==
  /\ healthCheckInterval = "active"
  /\ CanStartCycle
  /\ cycles' = Append(cycles, NewCycle)
  /\ started' = started + 1
  /\ emitted' = {}
  /\ UNCHANGED <<outsideFailover,
                 network, phase, available, endpoints, currentEndpoint, isFailingOver,
                 healthHistory, failoverHistory, healthCheckInterval,
                 fastCheckInterval, failedProbes, attempts, lastAttempt,
                 probeRun>>

\* the setInterval callback of the 'endpoint-failed' handler
FastTimerFires ==
  /\ fastCheckInterval = "active"
  /\ CanStartCycle
  /\ cycles' = Append(cycles, NewCycle)
  /\ started' = started + 1
  /\ emitted' = {}
  /\ UNCHANGED <<outsideFailover,
                 network, phase, available, endpoints, currentEndpoint, isFailingOver,
                 healthHistory, failoverHistory, healthCheckInterval,
                 fastCheckInterval, failedProbes, attempts, lastAttempt,
                 probeRun>>

\* ------------------------------------------------------ performFailover
\* the sequence s without its k-th element
Remove(s, k) == SubSeq(s, 1, k - 1) \o SubSeq(s, k + 1, Len(s))

\* performFailover after Promise.allSettled: the active endpoint, the
\* record, the guard, the events; then evaluateFailover and
\* performHealthChecks of cycle k return
FinishFailover(k, att, fast, events) ==
  /\ currentEndpoint' = NextActive(att, currentEndpoint)
  /\ fastCheckInterval' =
       IF AttemptSucceeded(att.results) THEN OnFailoverCompleted(fast)
       ELSE fast
  /\ isFailingOver' = FALSE
  /\ failoverHistory' =
       pruneFailoverHistory(Append(failoverHistory, FailoverRecord(att)))
  /\ emitted' = events \cup
       {IF AttemptSucceeded(att.results) THEN "failover-completed"
        ELSE "failover-failed", "health-check"}
  /\ cycles' = Remove(cycles, k)

\* the update of provider p of the attempt of cycle k settles
UpdateSettles(k, p, apiOk) ==
  /\ phase # "exited"
  /\ k \in 1..Len(cycles)
  /\ cycles[k].pc = "failover"
  /\ p \in cycles[k].attempt.pending
  /\ LET att == [cycles[k].attempt EXCEPT
                   !.pending = @ \ {p},
                   !.results = @ \cup {ProviderOutcome(p, apiOk)}]
     IN IF att.pending = {}
        THEN FinishFailover(k, att, fastCheckInterval, {})
        ELSE /\ cycles' = [cycles EXCEPT ![k].attempt = att]
             /\ emitted' = {}
             /\ UNCHANGED <<currentEndpoint, fastCheckInterval,
                            isFailingOver, failoverHistory>>
  /\ UNCHANGED <<outsideFailover,
                 network, phase, available, endpoints, healthHistory,
                 healthCheckInterval, started, failedProbes, attempts,
                 lastAttempt, probeRun>>

\* -------------------------------------------------- performHealthChecks
\* the run of equal probe results of an endpoint, after one more probe
NextRun(run, ep, healthy, upd) ==
  LET kind == IF healthy THEN "succ" ELSE "fail"
      base == IF run.kind = kind THEN run
              ELSE [kind |-> kind, len |-> 0, startHealthy |-> ep.healthy,
                    flips |-> 0, events |-> 0]
  IN [base EXCEPT
        !.len = @ + 1,
        !.flips = @ + (IF upd.ep.healthy # ep.healthy THEN 1 ELSE 0),
        !.events = @ + (IF upd.event # "none" THEN 1 ELSE 0)]

\* the probe of cycle k returns (healthy or not, with a response time):
\* updateEndpointStatus, then the next probe or, after the last endpoint,
\* the history and evaluateFailover
ProbeReturns(k, healthy, rt) ==
  /\ phase # "exited"
  /\ k \in 1..Len(cycles)
  /\ cycles[k].pc = "probe"
  /\ ~healthy => network = "unreliable" /\ failedProbes < MaxFailedProbes
  /\ rt \in (IF network = "steady" THEN ResponseTimes
             ELSE {NominalResponseTime})
  /\ LET c == cycles[k]
         e == c.i
         upd == updateEndpointStatus(endpoints[e], healthy, rt,
                                     healthHistory, e)
         eps == [endpoints EXCEPT ![e] = upd.ep]
         events == IF upd.event = "none" THEN {} ELSE {upd.event}
         fast == IF upd.event = "endpoint-failed"
                 THEN OnEndpointFailed(fastCheckInterval)
                 ELSE fastCheckInterval
         checks == Append(c.checks, [endpoint |-> e, healthy |-> healthy])
         decision == evaluateFailover(eps, currentEndpoint, isFailingOver)
         att == StartAttempt(eps, currentEndpoint, decision.to)
     IN
     /\ endpoints' = eps
     /\ failedProbes' = failedProbes + (IF healthy THEN 0 ELSE 1)
     /\ probeRun' = [probeRun EXCEPT
                       ![e] = NextRun(@, endpoints[e], healthy, upd)]
     /\ IF e < NumEndpoints
        THEN \* the loop goes on to the next endpoint's probe
             /\ cycles' = [cycles EXCEPT ![k].i = e + 1, ![k].checks = checks]
             /\ fastCheckInterval' = fast
             /\ emitted' = events
             /\ UNCHANGED <<currentEndpoint, isFailingOver, healthHistory,
                            failoverHistory, attempts, lastAttempt>>
        ELSE \* "Store health history", "Check if failover is needed"
             /\ healthHistory' = pruneHealthHistory(
                  Append(healthHistory, [old |-> c.old, checks |-> checks]))
             /\ IF decision.kind = "failover"
                THEN /\ attempts' = attempts + 1
                     /\ lastAttempt' = att
                     /\ IF att.pending = {}
                        THEN FinishFailover(k, att, fast, events)
                        ELSE /\ cycles' = [cycles EXCEPT
                                  ![k].pc = "failover", ![k].checks = checks,
                                  ![k].attempt = att]
                             /\ isFailingOver' = TRUE
                             /\ fastCheckInterval' = fast
                             /\ emitted' = events
                             /\ UNCHANGED <<currentEndpoint, failoverHistory>>
                ELSE /\ cycles' = Remove(cycles, k)
                     /\ fastCheckInterval' = fast
                     /\ emitted' = events \cup {"health-check"} \cup
                          (IF decision.kind = "no-healthy-endpoints"
                           THEN {"no-healthy-endpoints"} ELSE {})
                     /\ UNCHANGED <<currentEndpoint, isFailingOver,
                                    failoverHistory, attempts, lastAttempt>>
  /\ UNCHANGED <<outsideFailover,
                 network, phase, available, healthCheckInterval, started>>

Next ==
  \/ verifyProviders
  \/ checkCurrentDNS
  \/ startHealthMonitoring
  \/ BaseTimerFires
  \/ FastTimerFires
  \/ \E k \in 1..MaxInFlight : \E healthy \in BOOLEAN :
       \E rt \in ResponseTimes : ProbeReturns(k, healthy, rt)
  \/ \E k \in 1..MaxInFlight : \E p \in NetworkProviders :
       \E apiOk \in BOOLEAN : UpdateSettles(k, p, apiOk)

Spec == Init /\ [][Next]_vars

\* -------------------------------------------------------------- shutdown
\* clearInterval(handle) of a handle that is set: the timer is cancelled, the
\* field keeps the handle
ClearTimer(handle) == IF handle = "null" THEN "null" ELSE "cleared"

\* stop(), called by the owner of a running controller
stop ==
  /\ phase = "running"
  /\ healthCheckInterval' = ClearTimer(healthCheckInterval)
  /\ fastCheckInterval' = ClearTimer(fastCheckInterval)
  /\ emitted' = {"stopped"}
  /\ phase' = "stopped"
  /\ UNCHANGED <<outsideFailover,
                 network, available, endpoints, currentEndpoint, isFailingOver,
                 healthHistory, failoverHistory, cycles, started, failedProbes,
                 attempts, lastAttempt, probeRun>>

\* the SIGINT handler of the CLI: stop(), getStatus(), process.exit(0) in
\* one synchronous segment; no callback runs afterwards
SIGINT ==
  /\ phase = "running"
  /\ healthCheckInterval' = ClearTimer(healthCheckInterval)
  /\ fastCheckInterval' = ClearTimer(fastCheckInterval)
  /\ emitted' = {"stopped"}
  /\ phase' = "exited"
  /\ UNCHANGED <<outsideFailover,
                 network, available, endpoints, currentEndpoint, isFailingOver,
                 healthHistory, failoverHistory, cycles, started, failedProbes,
                 attempts, lastAttempt, probeRun>>

\* the controller in an unreliable network, stopped or interrupted at any
\* moment of a run of at most MaxShutdownCycles cycles
ShutdownInit == Init /\ network = "unreliable"

ShutdownNext ==
  \/ verifyProviders
  \/ checkCurrentDNS
  \/ startHealthMonitoring
  \/ started < MaxShutdownCycles /\ BaseTimerFires
  \/ started < MaxShutdownCycles /\ FastTimerFires
  \/ \E k \in 1..MaxInFlight : \E healthy \in BOOLEAN :
       \E rt \in ResponseTimes : ProbeReturns(k, healthy, rt)
  \/ \E k \in 1..MaxInFlight : \E p \in NetworkProviders :
       \E apiOk \in BOOLEAN : UpdateSettles(k, p, apiOk)
  \/ stop
  \/ SIGINT

ShutdownSpec == ShutdownInit /\ [][ShutdownNext]_vars

\* ------------------------------------------------------- long-run history
\* The caps of the histories are out of reach of a run of Spec: a hundred
\* failovers, an hour of cycles.  HistorySpec follows a controller that has
\* been running: between two cycles, both endpoints healthy, Cloudflare and
\* Route53 available, n failovers behind it (each from the endpoint that was
\* active to the other one, Route53 reporting success), the health history
\* pruned down to the entry of the last cycle.
\* the failover history after n failovers
PastFailovers(n) ==
  [i \in 1..n |->
     FailoverRecord(
       [from |-> IF i % 2 = 1 THEN 1 ELSE 2,
        to |-> IF i % 2 = 1 THEN 2 ELSE 1,
        reason |-> "failure", pending |-> {},
        results |-> {ProviderOutcome("Cloudflare", TRUE),
                     ProviderOutcome("AWS Route53", TRUE)}])]

\* an endpoint that has answered RecoveryThreshold probes in a row
RecoveredEndpoint ==
  [healthy |-> TRUE, consecutiveFailures |-> 0,
   consecutiveSuccesses |-> RecoveryThreshold,
   avgResponseTime |-> NominalResponseTime, uptime |-> [num |-> 100, den |-> 1]]

HistoryInit ==
  /\ NewVerifier
  /\ NewProvider
  /\ NewManager
  /\ NewServices
  /\ network = "unreliable"
  /\ phase = "running"
  /\ available = [p \in ProviderNames |-> p \in {"Cloudflare", "AWS Route53"}]
  /\ endpoints = [e \in EndpointIds |-> RecoveredEndpoint]
  /\ \E n \in {0, FailoverHistoryCap - 1, FailoverHistoryCap} :
       /\ failoverHistory = PastFailovers(n)
       /\ attempts = n
       /\ currentEndpoint = IF n % 2 = 1 THEN 2 ELSE 1
  /\ isFailingOver = FALSE
  /\ healthHistory =
       <<[old |-> FALSE,
          checks |-> [e \in EndpointIds |-> [endpoint |-> e, healthy |-> TRUE]]]>>
  /\ healthCheckInterval = "active"
  /\ fastCheckInterval = "null"
  /\ cycles = <<>>
  /\ emitted = {}
  /\ started = 0
  /\ failedProbes = 0
  /\ lastAttempt = NoAttempt
  /\ probeRun = [e \in EndpointIds |-> NoRun]

\* time passes: the timestamp of every entry of healthHistory is now more
\* than maxAge back (a cycle in flight began at most two probe timeouts ago)
HourPasses ==
  /\ phase = "running"
  /\ \E i \in 1..Len(healthHistory) : ~healthHistory[i].old
  /\ healthHistory' =
       [i \in 1..Len(healthHistory) |-> [healthHistory[i] EXCEPT !.old = TRUE]]
  /\ emitted' = {}
  /\ UNCHANGED <<outsideFailover,
                 network, phase, available, endpoints, currentEndpoint,
                 isFailingOver, failoverHistory, healthCheckInterval,
                 fastCheckInterval, cycles, started, failedProbes, attempts,
                 lastAttempt, probeRun>>

HistoryNext ==
  \/ started < MaxHistoryCycles /\ BaseTimerFires
  \/ started < MaxHistoryCycles /\ FastTimerFires
  \/ \E k \in 1..MaxInFlight : \E healthy \in BOOLEAN :
       \E rt \in ResponseTimes : ProbeReturns(k, healthy, rt)
  \/ \E k \in 1..MaxInFlight : \E p \in NetworkProviders :
       \E apiOk \in BOOLEAN : UpdateSettles(k, p, apiOk)
  \/ HourPasses

HistorySpec == HistoryInit /\ [][HistoryNext]_vars

\* ------------------------------------------- evaluateFailover on its own
\* The constructor builds two endpoints, so the sort of the failure path
\* has one element at most in every run of Spec.  SelectionSpec applies
\* evaluateFailover, up to its call of performFailover, to this.endpoints
\* arrays of SelectEndpoints entries.
\* the states updateEndpointStatus leaves an endpoint in: healthy and stable,
\* healthy after one failure, unhealthy, unhealthy after one success; an
\* endpoint that has answered has an average above 0
EndpointSamples ==
  {[healthy |-> c[1], consecutiveFailures |-> c[2],
    consecutiveSuccesses |-> c[3], avgResponseTime |-> a,
    uptime |-> [num |-> 100, den |-> 1]] :
     <<c, a>> \in
       {x \in {<<TRUE, 0, StableSuccesses>>, <<TRUE, FailoverThreshold - 1, 0>>,
                <<FALSE, FailoverThreshold, 0>>, <<FALSE, 0, 1>>}
               \X (0..MaxAverage) : x[1][3] > 0 => x[2] > 0}}

SelectionInit ==
  /\ NewVerifier
  /\ NewProvider
  /\ NewManager
  /\ NewServices
  /\ network = "steady"
  /\ phase = "selecting"
  /\ available = [p \in ProviderNames |-> p = "AWS Route53"]
  /\ endpoints \in [1..SelectEndpoints -> EndpointSamples]
  /\ currentEndpoint \in 1..SelectEndpoints
  /\ isFailingOver = FALSE
  /\ healthHistory = <<>>
  /\ failoverHistory = <<>>
  /\ healthCheckInterval = "active"
  /\ fastCheckInterval = "null"
  /\ cycles = <<>>
  /\ emitted = {}
  /\ started = 0
  /\ failedProbes = 0
  /\ attempts = 0
  /\ lastAttempt = NoAttempt
  /\ probeRun = [e \in EndpointIds |-> NoRun]

\* evaluateFailover is called: its decision and, for a failover, the
\* arguments of the performFailover invocation
evaluateFailoverCalled ==
  /\ phase = "selecting"
  /\ LET decision ==
           evaluateFailover(endpoints, currentEndpoint, isFailingOver)
     IN /\ attempts' = attempts + (IF decision.kind = "failover" THEN 1 ELSE 0)
        /\ lastAttempt' =
             IF decision.kind = "failover"
             THEN StartAttempt(endpoints, currentEndpoint, decision.to)
             ELSE lastAttempt
        /\ emitted' = IF decision.kind = "no-healthy-endpoints"
                      THEN {"no-healthy-endpoints"} ELSE {}
  /\ phase' = "selected"
  /\ UNCHANGED <<outsideFailover,
                 network, available, endpoints, currentEndpoint, isFailingOver,
                 healthHistory, failoverHistory, healthCheckInterval,
                 fastCheckInterval, cycles, started, failedProbes, probeRun>>

SelectionNext == evaluateFailoverCalled

SelectionSpec == SelectionInit /\ [][SelectionNext]_vars

\* ================================================================ verifier
\* DNSVerifier (src/dns-verifier.js).  A comprehensive check is kept as the
\* five results calculateOverallSuccess reads.  Time is kept as the one fact
\* verify() reads from the clock: whether the configured timeout has elapsed
\* since startTime.

\* this.dnsServers.length, the totalCount of every checkDNSServers result
TotalServers == 8
\* this.onlineCheckers.length
TotalOnlineCheckers == 2
\* checks that must pass of the five
QuorumSize == 3

\* successCount values of checkDNSServers on both sides of one half
ServerCounts == {TotalServers \div 2 - 1, TotalServers \div 2}
\* successCount values of checkOnlineServices
OnlineCounts == 0..TotalOnlineCheckers

\* the results performComprehensiveCheck can return
Checks ==
  [local : BOOLEAN, servers : ServerCounts, online : OnlineCounts,
   http : BOOLEAN, ssl : BOOLEAN]

\* calculateOverallSuccess(check).details
Details(check) ==
  [local   |-> check.local,
   servers |-> 2 * check.servers >= TotalServers,
   online  |-> check.online > 0,
   http    |-> check.http,
   ssl     |-> check.ssl]

calculateOverallSuccess(check) ==
  LET checks == Details(check)
      successCount == Cardinality({d \in DOMAIN checks : checks[d]})
  IN  [success |-> successCount >= QuorumSize, score |-> successCount]

\* what verify() ends with when generateFinalReport throws
Rejected == [status |-> "rejected", finalState |-> Null]

\* generateFinalReport(finalCheck, startTime, status): generateRecommendations
\* reads finalCheck.local, a TypeError when finalCheck is null
generateFinalReport(finalCheck, status) ==
  IF finalCheck = Null
    THEN [threw |-> TRUE, report |-> Rejected]
    ELSE [threw |-> FALSE,
          report |-> [status |-> status, finalState |-> finalCheck]]

\* resolve(generateFinalReport(...)), and the return of the same from the
\* async function: the first settlement stands
Settle(result, gen) ==
  IF result.status # "pending" THEN result ELSE gen.report

\* the CLI: the exit code for a resolved report, and for a rejection
ExitCode(result) ==
  IF result.status = "rejected" THEN 1
  ELSE IF result.status = "success" THEN 0 ELSE 1

\* verify() is called and awaits the initial check
verify ==
  /\ verifyPc = "constructed"
  /\ verifyPc' = "initialCheck"
  /\ UNCHANGED <<outsideVerifier, deadlinePassed, checkInterval, lastCheck,
                 checksInFlight, ticks, reports, verifyResult>>

\* the timeout elapses while verify() has not ended
DeadlinePasses ==
  /\ verifyPc \in {"initialCheck", "polling"}
  /\ ~deadlinePassed
  /\ deadlinePassed' = TRUE
  /\ UNCHANGED <<outsideVerifier, verifyPc, checkInterval, lastCheck,
                 checksInFlight, ticks, reports, verifyResult>>

\* the initial check returns: the report at once when it met the quorum,
\* the polling timer otherwise
InitialCheckReturns(check) ==
  /\ verifyPc = "initialCheck"
  /\ IF calculateOverallSuccess(check).success
       THEN LET gen == generateFinalReport(<<check>>, "unknown") IN
            /\ verifyResult' = Settle(verifyResult, gen)
            /\ reports' = reports + 1
            /\ verifyPc' = "settled"
            /\ UNCHANGED checkInterval
       ELSE /\ checkInterval' = "active"
            /\ verifyPc' = "polling"
            /\ UNCHANGED <<verifyResult, reports>>
  /\ UNCHANGED <<outsideVerifier, deadlinePassed, lastCheck, checksInFlight,
                 ticks>>

\* the timer callback, to its first await: past the deadline it cancels the
\* timer and resolves with the report of lastCheck, else it starts a check
IntervalFires ==
  /\ checkInterval = "active"
  /\ \/ deadlinePassed
     \/ ticks < MaxTicks /\ checksInFlight < MaxChecksInFlight
  /\ ticks' = ticks + 1
  /\ IF deadlinePassed
       THEN LET gen == generateFinalReport(lastCheck, "timeout") IN
            /\ checkInterval' = "cleared"
            /\ verifyResult' = Settle(verifyResult, gen)
            /\ reports' = IF gen.threw THEN reports ELSE reports + 1
            /\ verifyPc' = "settled"
            /\ UNCHANGED checksInFlight
       ELSE /\ checksInFlight' = checksInFlight + 1
            /\ UNCHANGED <<checkInterval, verifyResult, reports, verifyPc>>
  /\ UNCHANGED <<outsideVerifier, deadlinePassed, lastCheck>>

\* a timer callback's check returns: lastCheck is set, and a check that met
\* the quorum cancels the timer and resolves with its report
CheckReturns(check) ==
  /\ checksInFlight > 0
  /\ checksInFlight' = checksInFlight - 1
  /\ lastCheck' = <<check>>
  /\ IF calculateOverallSuccess(check).success
       THEN LET gen == generateFinalReport(<<check>>, "success") IN
            /\ checkInterval' = "cleared"
            /\ verifyResult' = Settle(verifyResult, gen)
            /\ reports' = reports + 1
            /\ verifyPc' = "settled"
       ELSE UNCHANGED <<checkInterval, verifyResult, reports, verifyPc>>
  /\ UNCHANGED <<outsideVerifier, deadlinePassed, ticks>>

\* one call of verify() on a fresh verifier
VerifierInit == Init /\ network = "steady"

VerifierNext ==
  \/ verify
  \/ DeadlinePasses
  \/ \E check \in Checks : InitialCheckReturns(check)
  \/ IntervalFires
  \/ \E check \in Checks : CheckReturns(check)

VerifierSpec == VerifierInit /\ [][VerifierNext]_vars

\* the same call in an event loop that keeps running: the clock advances,
\* the awaited initial check returns and an active timer fires
VerifierFairness ==
  /\ WF_vars(verify)
  /\ WF_vars(DeadlinePasses)
  /\ WF_vars(\E check \in Checks : InitialCheckReturns(check))
  /\ WF_vars(IntervalFires)

VerifierLiveSpec == VerifierSpec /\ VerifierFairness

\* =============================================================== providers
\* The DNS providers: PorkbunProvider and the CloudflareProvider and
\* NetlifyDNSProvider stubs of src/dns-management-system.js, and the
\* CloudflareProvider and NetlifyDNSProvider of
\* src/dns-providers/cloudflare-provider.js.  A JavaScript value that is
\* true, false or undefined is kept as "true", "false" or "undefined".

\* the classes that load credentials and call their API
ProviderClasses == {"Porkbun", "Cloudflare", "Netlify DNS"}
\* the classes whose methods are placeholders
StubClasses == {"Cloudflare stub", "Netlify DNS stub"}

\* what the environment variables of a provider hold: none, some of them
\* (PorkbunProvider reads two), all of them
EnvironmentContents(p) ==
  IF p = "Porkbun" THEN {"absent", "partial", "complete"}
  ELSE {"absent", "complete"}
\* what the credentials file of a provider holds: nothing readable as JSON,
\* an object that lacks a key, a complete credential set
FileContents == {"absent", "incomplete", "complete"}

\* loadFromEnvironment: the credentials when every variable is set
loadFromEnvironment(src) ==
  IF src.environment = "complete" THEN "complete" ELSE "null"

\* loadFromFile: whatever JSON the file holds, null when it cannot be read
loadFromFile(src) == IF src.file = "absent" THEN "null" ELSE src.file

\* loadFromAWSSecrets: a placeholder
loadFromAWSSecrets == "null"

\* loadCredentials' array of sources
sources(p) ==
  IF p = "Porkbun" THEN <<"environment", "secrets", "file">>
  ELSE <<"environment", "file", "secrets">>

LoadFrom(source, src) ==
  CASE source = "environment" -> loadFromEnvironment(src)
    [] source = "file" -> loadFromFile(src)
    [] source = "secrets" -> loadFromAWSSecrets

RECURSIVE LoadNext(_, _, _)
\* loadCredentials' loop from the k-th source: the first credentials that are
\* not null are returned, and the throw follows the last source
LoadNext(order, src, k) ==
  IF k > Len(order)
    THEN [threw |-> TRUE, creds |-> "null", consulted |-> order]
    ELSE IF LoadFrom(order[k], src) # "null"
      THEN [threw |-> FALSE, creds |-> LoadFrom(order[k], src),
            consulted |-> SubSeq(order, 1, k)]
      ELSE LoadNext(order, src, k + 1)

loadCredentials(p, src) == LoadNext(sources(p), src, 1)

\* what the API call of healthCheck can meet: a confirmation (status 200),
\* a 2xx answer that says no (for Netlify: a status other than 200), a 200
\* answer whose body is not the expected object, a 4xx/5xx answer, no answer
\* in 10 s, no connection
ApiOutcomes ==
  {"ok", "refused", "malformed", "errorResponse", "timeout", "networkError"}
\* the outcomes axios throws for
AxiosThrows == {"errorResponse", "timeout", "networkError"}

\* the object healthCheck builds from a 2xx answer
HealthFromResponse(p, api) ==
  CASE p = "Porkbun" -> IF api = "ok" THEN "true" ELSE "false"
    [] p = "Cloudflare" ->
         IF api = "ok" THEN "true"
         ELSE IF api = "refused" THEN "false" ELSE "undefined"
    [] p = "Netlify DNS" -> IF api = "refused" THEN "false" ELSE "true"

\* the try block of healthCheck
HealthCheckBody(p, src, api) ==
  IF loadCredentials(p, src).threw \/ api \in AxiosThrows
    THEN [op |-> "healthCheck", threw |-> TRUE, ok |-> "false"]
    ELSE [op |-> "healthCheck", threw |-> FALSE,
          ok |-> HealthFromResponse(p, api)]

\* mutant of HealthCheckResult: no catch block
HealthCheckResult_NoCatch(p, src, api) == HealthCheckBody(p, src, api)

\* healthCheck's return: the catch block turns every throw into
\* {healthy: false, error}; the stubs return that at once
HealthCheckResult(p, src, api) ==
  IF p \in StubClasses \/ HealthCheckBody(p, src, api).threw
    THEN [op |-> "healthCheck", threw |-> FALSE, ok |-> "false"]
    ELSE HealthCheckBody(p, src, api)

\* the answers an API can give to the credentials it is sent: it confirms
\* only a complete credential set
Answers(p, src) ==
  IF p \in ProviderClasses /\ loadCredentials(p, src).creds = "complete"
    THEN ApiOutcomes ELSE ApiOutcomes \ {"ok"}

\* what provider.healthCheck() does to the provider
HealthCheckCall(api) ==
  /\ api \in Answers(provider, credentialSources)
  /\ returned' = HealthCheckResult(provider, credentialSources, api)
  /\ IF provider \in StubClasses
       THEN UNCHANGED <<credentials, consulted>>
       ELSE LET loaded == loadCredentials(provider, credentialSources) IN
            /\ consulted' = loaded.consulted
            /\ credentials' = IF loaded.threw THEN credentials
                              ELSE loaded.creds
  /\ UNCHANGED <<provider, credentialSources, zone, requests>>

\* provider.healthCheck(), called on its own
healthCheck(api) == HealthCheckCall(api) /\ UNCHANGED outsideProvider

\* the subdomains and targets of the records: config.subdomain and the
\* first alternative of createAlternativeSubdomain; config.target and
\* the target of a record made earlier
Subdomains == {"fogg", "fogg-cal"}
Targets == {"fogg-calendar.netlify.app", "old.netlify.app"}

\* what the API can do with the record request of createRecord: carry it
\* out, answer 2xx with a refusal, answer with an error or not at all; and
\* the zone or record lookup before it can fail
RecordAnswers == {"accepted", "refused", "error", "lookupFailed"}

\* findExistingRecord: the position in the zone of the first CNAME record
\* of the subdomain, 0 when there is none
findExistingRecord(z, subdomain) ==
  IF \E k \in 1..Len(z) : z[k].name = subdomain
    THEN CHOOSE k \in 1..Len(z) :
           /\ z[k].name = subdomain
           /\ \A j \in 1..(k - 1) : z[j].name # subdomain
    ELSE 0

\* mutant of RecordRequest: no provider looks the record up
RecordRequest_AlwaysCreate(p, z, subdomain, target) ==
  [kind |-> "create", at |-> 0, name |-> subdomain, content |-> target]

\* the record request createRecord sends: PorkbunProvider always posts a
\* create; the others put an update when findExistingRecord found a record
RecordRequest(p, z, subdomain, target) ==
  IF p # "Porkbun" /\ findExistingRecord(z, subdomain) # 0
    THEN [kind |-> "update", at |-> findExistingRecord(z, subdomain),
          name |-> subdomain, content |-> target]
    ELSE [kind |-> "create", at |-> 0, name |-> subdomain,
          content |-> target]

\* the zone after the API has carried out a request
Apply(z, req) ==
  IF req.kind = "update"
    THEN [z EXCEPT ![req.at] = [name |-> z[req.at].name,
                                content |-> req.content]]
    ELSE Append(z, [name |-> req.name, content |-> req.content])

\* createRecord does not reach its record request: a stub, credentials
\* that are null (a TypeError, caught), a failed lookup (caught)
NoRequest(p, creds, answer) ==
  \/ p \in StubClasses
  \/ creds = "null"
  \/ p # "Porkbun" /\ answer = "lookupFailed"

\* what provider.createRecord({domain, subdomain, target, ttl}) does to the
\* provider and its zone
CreateRecordCall(subdomain, target, answer) ==
  LET req == RecordRequest(provider, zone, subdomain, target) IN
  /\ answer = "accepted" => credentials = "complete"
  /\ answer = "lookupFailed" => provider \notin {"Porkbun"} \cup StubClasses
  /\ answer = "accepted" /\ req.kind = "create" => Len(zone) < MaxRecords
  /\ IF NoRequest(provider, credentials, answer)
       THEN /\ requests' = <<>>
            /\ returned' = [op |-> "createRecord", threw |-> FALSE,
                            ok |-> "false"]
            /\ UNCHANGED zone
       ELSE /\ requests' = <<req>>
            /\ returned' = [op |-> "createRecord", threw |-> FALSE,
                            ok |-> IF answer = "accepted" THEN "true"
                                   ELSE "false"]
            /\ zone' = IF answer = "accepted" THEN Apply(zone, req) ELSE zone
  /\ UNCHANGED <<provider, credentialSources, credentials, consulted>>

\* provider.createRecord(...), called on its own
createRecord(subdomain, target, answer) ==
  CreateRecordCall(subdomain, target, answer) /\ UNCHANGED outsideProvider

\* a provider of any class, in any state of its credential sources, with a
\* zone that is empty or holds a record of the subdomain made earlier
ProviderInit ==
  /\ NewFailoverSystem
  /\ network = "steady"
  /\ NewVerifier
  /\ NewManager
  /\ NewServices
  /\ provider \in ProviderClasses \cup StubClasses
  /\ credentialSources \in
       {src \in [environment : {"absent", "partial", "complete"},
                 file : FileContents] :
          src.environment \in EnvironmentContents(provider)}
  /\ credentials = "null"
  /\ zone \in {<<>>, <<[name |-> "fogg", content |-> "old.netlify.app"]>>}
  /\ consulted = <<>>
  /\ requests = <<>>
  /\ returned = NoCall

ProviderNext ==
  \/ \E api \in ApiOutcomes : healthCheck(api)
  \/ \E subdomain \in Subdomains : \E target \in Targets :
       \E answer \in RecordAnswers : createRecord(subdomain, target, answer)

ProviderSpec == ProviderInit /\ [][ProviderNext]_vars

\* ================================================================= manager
\* DNSManager (src/dns-management-system.js).  configureDNS() is sequential:
\* every action below is one awaited call, from its start to its return, and
\* the synchronous code that follows it.  The provider state of the module
\* is that of this.providers[0], the PorkbunProvider.

\* this.providers: the classes of dns-management-system.js
Chain == <<"Porkbun", "Cloudflare stub", "Netlify DNS stub">>

\* createAlternativeSubdomain's alternatives
Alternatives == <<"fogg-cal", "fogg-dashboard", "calendar-fogg">>

\* the result of configureDNS after a provider succeeded
ProviderResult(p) == [success |-> TRUE, method |-> p, url |-> "none"]
\* the results of the backup strategies
RedirectResult ==
  [success |-> TRUE, method |-> "netlify_redirect",
   url |-> "https://candlefish.ai/fogg"]
AlternativeResult(alt) ==
  [success |-> TRUE, method |-> "alternative_subdomain", url |-> alt]
ProxyResult == [success |-> TRUE, method |-> "proxy_server", url |-> "none"]

\* the CLI: process.exit(result.success ? 0 : 1)
ManagerExitCode(result) == IF result.success THEN 0 ELSE 1

\* configureDNS() is called and awaits the first provider's health check
configureDNS ==
  /\ managerPc = "constructed"
  /\ managerPc' = "healthCheck"
  /\ providerIndex' = 1
  /\ UNCHANGED <<outsideManager, providerVars, alternative, operations,
                 failedProviders, monitoringStarts, configureResult>>

\* mutant of AfterFailedAttempt: the loop ends at the first failure
AfterFailedAttempt_NoFallback(i) ==
  [pc |-> "useNetlifyRedirect", index |-> i]

\* attemptProvider returned false: the next provider of the chain, the
\* backup strategies after the last one
AfterFailedAttempt(i) ==
  IF i < Len(Chain)
    THEN [pc |-> "healthCheck", index |-> i + 1]
    ELSE [pc |-> "useNetlifyRedirect", index |-> i]

\* the manager after attemptProvider returned false
AttemptFails ==
  /\ failedProviders' = failedProviders \cup {Chain[providerIndex]}
  /\ managerPc' = AfterFailedAttempt(providerIndex).pc
  /\ providerIndex' = AfterFailedAttempt(providerIndex).index

\* a call on the provider at the head of the log
Logged(p, op, ok) == Append(operations, [provider |-> p, op |-> op, ok |-> ok])

\* attemptProvider: provider.healthCheck() returns
HealthCheckReturns(api) ==
  LET p == Chain[providerIndex]
      src == IF p = "Porkbun" THEN credentialSources ELSE NoCredentials
      healthy == HealthCheckResult(p, src, api).ok = "true"
  IN
  /\ managerPc = "healthCheck"
  /\ api \in Answers(p, src)
  /\ IF p = "Porkbun" THEN HealthCheckCall(api) ELSE UNCHANGED providerVars
  /\ operations' = Logged(p, "healthCheck", healthy)
  /\ IF healthy
       THEN /\ managerPc' = "createRecord"
            /\ UNCHANGED <<providerIndex, failedProviders>>
       ELSE AttemptFails
  /\ UNCHANGED <<outsideManager, alternative, monitoringStarts,
                 configureResult>>

\* attemptProvider: provider.createRecord(...) returns
CreateRecordReturns(answer) ==
  LET p == Chain[providerIndex] IN
  /\ managerPc = "createRecord"
  /\ p = "Porkbun"
  /\ CreateRecordCall("fogg", "fogg-calendar.netlify.app", answer)
  /\ operations' = Logged(p, "createRecord", answer = "accepted")
  /\ IF returned'.ok = "true"
       THEN /\ managerPc' = "verifyDNSPropagation"
            /\ UNCHANGED <<providerIndex, failedProviders>>
       ELSE AttemptFails
  /\ UNCHANGED <<outsideManager, alternative, monitoringStarts,
                 configureResult>>

\* attemptProvider: verifyDNSPropagation() returns; on success monitoring
\* is started and configureDNS returns
VerificationReturns(verified) ==
  /\ managerPc = "verifyDNSPropagation"
  /\ IF verified
       THEN /\ monitoringStarts' = monitoringStarts + 1
            /\ configureResult' = ProviderResult(Chain[providerIndex])
            /\ managerPc' = "returned"
            /\ UNCHANGED <<providerIndex, failedProviders>>
       ELSE /\ AttemptFails
            /\ UNCHANGED <<monitoringStarts, configureResult>>
  /\ UNCHANGED <<outsideManager, providerVars, alternative, operations>>

\* implementBackupStrategy: useNetlifyRedirect() returns, after writing the
\* _redirects file or after failing to
RedirectReturns(written) ==
  /\ managerPc = "useNetlifyRedirect"
  /\ IF written
       THEN /\ configureResult' = RedirectResult
            /\ managerPc' = "returned"
            /\ UNCHANGED alternative
       ELSE /\ managerPc' = "createAlternativeSubdomain"
            /\ alternative' = 1
            /\ UNCHANGED configureResult
  /\ UNCHANGED <<outsideManager, providerVars, providerIndex, operations,
                 failedProviders, monitoringStarts>>

\* createAlternativeSubdomain: this.providers[0].createRecord(...) returns
\* for one alternative; after the last one setupProxyServer, which awaits
\* nothing, returns its configuration
AlternativeReturns(answer) ==
  /\ managerPc = "createAlternativeSubdomain"
  /\ CreateRecordCall(Alternatives[alternative], "fogg-calendar.netlify.app",
                      answer)
  /\ operations' = Logged(Chain[1], "createRecord", answer = "accepted")
  /\ IF returned'.ok = "true"
       THEN /\ configureResult' = AlternativeResult(Alternatives[alternative])
            /\ managerPc' = "returned"
            /\ UNCHANGED alternative
       ELSE IF alternative < Len(Alternatives)
         THEN /\ alternative' = alternative + 1
              /\ UNCHANGED <<managerPc, configureResult>>
         ELSE /\ configureResult' = ProxyResult
              /\ managerPc' = "returned"
              /\ UNCHANGED alternative
  /\ UNCHANGED <<outsideManager, providerIndex, failedProviders,
                 monitoringStarts>>

\* one run of the CLI: a fresh DNSManager, in any state of Porkbun's
\* credential sources, with a zone that is empty or holds a record of the
\* subdomain made earlier
ManagerInit ==
  /\ NewFailoverSystem
  /\ network = "steady"
  /\ NewVerifier
  /\ NewManager
  /\ NewServices
  /\ provider = Chain[1]
  /\ credentialSources \in [environment : EnvironmentContents(Chain[1]),
                            file : FileContents]
  /\ credentials = "null"
  /\ zone \in {<<>>, <<[name |-> "fogg", content |-> "old.netlify.app"]>>}
  /\ consulted = <<>>
  /\ requests = <<>>
  /\ returned = NoCall

ManagerNext ==
  \/ configureDNS
  \/ \E api \in ApiOutcomes : HealthCheckReturns(api)
  \/ \E answer \in RecordAnswers : CreateRecordReturns(answer)
  \/ \E verified \in BOOLEAN : VerificationReturns(verified)
  \/ \E written \in BOOLEAN : RedirectReturns(written)
  \/ \E answer \in RecordAnswers : AlternativeReturns(answer)

ManagerSpec == ManagerInit /\ [][ManagerNext]_vars

\* ======================================================= Netlify functions
\* The deployment endpoint (src/unnamed/part_003) and the status endpoint
\* (src/netlify/functions/status.js).  The functions keep no state: a
\* deployment is the deploymentId and startTime of the answer to the POST,
\* which the client sends back with every poll.  Both functions read the
\* same clock.  Times are in units of 100 ms; an ISO timestamp keeps its
\* milliseconds, so that startTime is read back as it was written.

\* TOTAL_DEPLOYMENT_TIME, DEPLOYMENT_DURATION: 30 seconds
TOTAL_DEPLOYMENT_TIME == 300
\* DEPLOYMENT_STAGES of status.js: the progress of each stage
DEPLOYMENT_STAGES ==
  <<[name |-> "guardian", progress |-> 20],
    [name |-> "speedster", progress |-> 40],
    [name |-> "detective", progress |-> 70],
    [name |-> "architect", progress |-> 90]>>
\* CURRENT_VERSION, baseVersion: '2.4.1', split at the dots
CURRENT_VERSION == <<2, 4, 1>>

\* the version with its patch component incremented
NextPatch(version) == [version EXCEPT ![3] = @ + 1]

\* mutant of Progress: the percentage is not capped
Progress_Uncapped(elapsed) ==
  (2 * elapsed * 100 + TOTAL_DEPLOYMENT_TIME) \div (2 * TOTAL_DEPLOYMENT_TIME)

\* Math.round(Math.min(100, (elapsed / TOTAL_DEPLOYMENT_TIME) * 100)), for
\* elapsed >= 0: Math.round rounds a half up
Progress(elapsed) ==
  IF elapsed >= TOTAL_DEPLOYMENT_TIME THEN 100
  ELSE (2 * elapsed * 100 + TOTAL_DEPLOYMENT_TIME)
         \div (2 * TOTAL_DEPLOYMENT_TIME)

\* the stage whose window of progress holds the unrounded percentage, the
\* first one in the order of DEPLOYMENT_STAGES; "null" when complete
CurrentStage(elapsed) ==
  LET holds(k) ==
        /\ elapsed * 100
             >= (DEPLOYMENT_STAGES[k].progress - 20) * TOTAL_DEPLOYMENT_TIME
        /\ elapsed * 100
             < (DEPLOYMENT_STAGES[k].progress + 20) * TOTAL_DEPLOYMENT_TIME
      found == {k \in 1..Len(DEPLOYMENT_STAGES) : holds(k)}
  IN IF elapsed >= TOTAL_DEPLOYMENT_TIME \/ found = {} THEN "null"
     ELSE DEPLOYMENT_STAGES[CHOOSE k \in found :
                              \A j \in found : k <= j].name

\* POST /deploy: the answer names the deployment and the version it will
\* bring
postDeploy ==
  /\ deployResponse = Null
  /\ clock <= MaxDeployClock
  /\ deployResponse' = <<[statusCode |-> 200, deploymentId |-> clock,
                          startTime |-> clock,
                          version |-> NextPatch(CURRENT_VERSION)]>>
  /\ UNCHANGED <<outsideFunctions, clock, statusResponse>>

\* GET /status?deploymentId=...&startTime=..., with the values of the
\* answer to the POST
getStatus ==
  /\ deployResponse # Null
  /\ LET elapsed == clock - deployResponse[1].startTime
         isComplete == elapsed >= TOTAL_DEPLOYMENT_TIME
     IN statusResponse' =
          <<[statusCode |-> 200,
             deploymentId |-> deployResponse[1].deploymentId,
             isDeploying |-> ~isComplete,
             isComplete |-> isComplete,
             progress |-> Progress(elapsed),
             currentStage |-> CurrentStage(elapsed),
             version |-> IF isComplete THEN NextPatch(CURRENT_VERSION)
                         ELSE CURRENT_VERSION,
             timestamp |-> clock]>>
  /\ UNCHANGED <<outsideFunctions, clock, deployResponse>>

\* time passes: a tenth of a second, or several seconds
TimePasses(d) ==
  /\ clock + d <= MaxClock
  /\ clock' = clock + d
  /\ UNCHANGED <<outsideFunctions, deployResponse, statusResponse>>

FunctionsInit == Init /\ network = "steady"

FunctionsNext ==
  \/ postDeploy
  \/ getStatus
  \/ \E d \in {1, 40} : TimePasses(d)

FunctionsSpec == FunctionsInit /\ [][FunctionsNext]_vars

\* ============================================================ orchestrator
\* FOGGDNSFixer (src/LESLIE_FINAL_INSTRUCTIONS.md, lines 337-800).  execute()
\* runs its steps one after the other through step(id, description,
\* operation).  An operation's outcome is what the program it calls can
\* return: configureDNS() returns a result with success true, of a provider
\* or of a backup strategy, and does not throw; verify() resolves with status
\* 'unknown' (the initial check met the quorum), 'success' or 'timeout', or
\* rejects; diagnoseDNSIssue() returns the issues it found; the other
\* operations return, or throw when a file cannot be written.

\* what the operation of a step can do
Outcomes(id) ==
  LET returns(rs) == [threw : {FALSE}, result : rs, issues : {{}}]
      throws == [threw |-> TRUE, result |-> "error", issues |-> {}]
  IN CASE id = "diagnosis" ->
            [threw : {FALSE}, result : {"diagnosis"},
             issues : SUBSET {"DNS_RESOLUTION_FAILED", "TARGET_UNREACHABLE",
                              "SSL_ACCESS_FAILED"}]
       [] id = "dns_fix" -> returns({"provider", "backup strategy"})
       [] id = "verification" ->
            returns({"unknown", "success", "timeout"}) \cup {throws}
       [] id = "backup" -> returns({"plan"}) \cup {throws}
       [] id = "monitoring" -> returns({"saved"}) \cup {throws}

\* this.results.steps.find(step => step.id === id), Null when there is none
FindStep(s, id) ==
  LET found == {k \in 1..Len(s) : s[k].id = id} IN
  IF found = {} THEN Null
  ELSE <<s[CHOOSE k \in found : \A j \in found : k <= j]>>

\* isDNSWorking(): dnsStep?.success && (!verificationStep ||
\* verificationStep.success)
isDNSWorking(s) ==
  LET dnsStep == FindStep(s, "dns_fix")
      verificationStep == FindStep(s, "verification")
  IN /\ dnsStep # Null /\ dnsStep[1].success
     /\ verificationStep = Null \/ verificationStep[1].success

\* getLastResult().success
LastSuccess(s) == IF s = <<>> THEN FALSE ELSE s[Len(s)].success

\* execute(): the step after the step id has returned, s being the steps
\* recorded so far
AfterStep(id, s) ==
  LET afterVerification ==
        IF ~isDNSWorking(s) THEN "backup" ELSE "monitoring"
  IN CASE id = "diagnosis" -> "dns_fix"
       [] id = "dns_fix" ->
            IF LastSuccess(s) THEN "verification" ELSE afterVerification
       [] id = "verification" -> afterVerification
       [] id = "backup" -> "monitoring"
       [] id = "monitoring" -> "report"

\* execute() is called and awaits the diagnosis
execute ==
  /\ fixerPc = "constructed"
  /\ fixerPc' = "diagnosis"
  /\ UNCHANGED <<outsideFixer, steps, finalStatus>>

\* step(): the operation of the awaited step returns or throws.  The step
\* is recorded with success true when the operation returned; when it threw
\* the error is thrown on to execute(), whose catch calls
\* handleCriticalFailure
StepReturns(outcome) ==
  /\ fixerPc \in {"diagnosis", "dns_fix", "verification", "backup",
                  "monitoring"}
  /\ outcome \in Outcomes(fixerPc)
  /\ steps' = Append(steps, [id |-> fixerPc, success |-> ~outcome.threw,
                             result |-> outcome.result,
                             issues |-> outcome.issues])
  /\ IF outcome.threw
       THEN /\ finalStatus' = "CRITICAL_FAILURE"
            /\ fixerPc' = "returned"
       ELSE /\ fixerPc' = AfterStep(fixerPc, steps')
            /\ UNCHANGED finalStatus
  /\ UNCHANGED outsideFixer

\* generateFinalReport(), and handleCriticalFailure when the report or the
\* instructions cannot be written
generateReport(written) ==
  /\ fixerPc = "report"
  /\ fixerPc' = "returned"
  /\ finalStatus' =
       IF ~written THEN "CRITICAL_FAILURE"
       ELSE IF isDNSWorking(steps) THEN "DNS_FIXED"
       ELSE IF \E k \in 1..Len(steps) :
                 steps[k].id = "backup" /\ steps[k].success
         THEN "BACKUP_ACTIVE"
       ELSE "FAILED"
  /\ UNCHANGED <<outsideFixer, steps>>

FixerInit == Init /\ network = "steady"

FixerNext ==
  \/ execute
  \/ \E id \in {"diagnosis", "dns_fix", "verification", "backup",
                "monitoring"} :
       \E outcome \in Outcomes(id) : StepReturns(outcome)
  \/ \E written \in BOOLEAN : generateReport(written)

FixerSpec == FixerInit /\ [][FixerNext]_vars

\* ============================================================= propagation
\* DNSManager.verifyDNSPropagation (src/dns-management-system.js, lines
\* 107-157): a loop that awaits dns.resolveCname, then verifyHTTPAccess or
\* sleep(10000).  Times are in units of 100 ms.

\* config.verificationTimeout: 5 minutes
verificationTimeout == 3000
\* sleep(10000)
PollSleep == 100
\* how long a DNS query or an HTTP request can take: a tenth of a second,
\* or two seconds
CallDurations == {1, 20}

\* verifyDNSPropagation() is called: startTime is taken, the loop is
\* entered and awaits the first resolveCname
verifyDNSPropagation ==
  /\ propagationPc = "idle"
  /\ startTime' = clock
  /\ propagationPc' = "resolveCname"
  /\ UNCHANGED <<outsidePropagation, clock, propagationResult>>

\* dns.resolveCname(fqdn) returns the target, returns other names, or
\* throws (caught)
ResolveCnameReturns(answer, d) ==
  /\ propagationPc = "resolveCname"
  /\ clock' = clock + d
  /\ propagationPc' = IF answer = "target" THEN "verifyHTTPAccess"
                      ELSE "sleep"
  /\ UNCHANGED <<outsidePropagation, startTime, propagationResult>>

\* verifyHTTPAccess() returns: success is response.status < 400, false
\* when the request threw; verifyDNSPropagation returns it
HTTPAccessReturns(ok, d) ==
  /\ propagationPc = "verifyHTTPAccess"
  /\ clock' = clock + d
  /\ propagationResult' = [success |-> ok, method |-> "dns_cname"]
  /\ propagationPc' = "returned"
  /\ UNCHANGED <<outsidePropagation, startTime>>

\* the loop's condition: Date.now() - startTime < verificationTimeout
LoopContinues(now, start) == now - start < verificationTimeout

\* sleep(10000) ends: the loop's condition is evaluated
SleepEnds ==
  /\ propagationPc = "sleep"
  /\ clock' = clock + PollSleep
  /\ IF LoopContinues(clock', startTime)
       THEN /\ propagationPc' = "resolveCname"
            /\ UNCHANGED propagationResult
       ELSE /\ propagationPc' = "returned"
            /\ propagationResult' = [success |-> FALSE, method |-> "timeout"]
  /\ UNCHANGED <<outsidePropagation, startTime>>

PropagationInit == Init /\ network = "steady"

PropagationNext ==
  \/ verifyDNSPropagation
  \/ \E answer \in {"target", "other", "error"} : \E d \in CallDurations :
       ResolveCnameReturns(answer, d)
  \/ \E ok \in BOOLEAN : \E d \in CallDurations : HTTPAccessReturns(ok, d)
  \/ SleepEnds

PropagationSpec == PropagationInit /\ [][PropagationNext]_vars

\* ================================================================= monitor
\* DNSMonitor (src/dns-monitor.js).  The monitoring timer calls the async
\* performHealthCheck without awaiting the one before; a health check ends
\* by pushing its results to this.checks and calling handleStatusChange,
\* which runs up to its first await of sendAlert in the same segment.
\* sendAlert hands the alert to the channels (the console channel prints it
\* at once) and awaits the file and the webhook.  attemptRecovery touches
\* neither the counter nor the status.

\* config.alertThreshold: failures before alert
alertThreshold == 3

\* handleStatusChange from the status change detection on, for the call h,
\* the other calls in flight and the alerts sent so far: the alert is
\* awaited, or this.lastStatus is set and the call returns
StatusChangeDetection(h, others, sent) ==
  IF h.wasHealthy # h.healthy
    THEN /\ alerts' = Append(sent, [type |-> "status_change",
                                    check |-> h.check])
         /\ handlers' = others \cup {[h EXCEPT !.pc = "status_change"]}
         /\ UNCHANGED lastStatus
    ELSE /\ alerts' = sent
         /\ handlers' = others
         /\ lastStatus' = IF h.healthy THEN "healthy" ELSE "unhealthy"

\* a health check has its results: they are pushed to this.checks and
\* handleStatusChange(results) runs to its first await
CheckCompletes(healthy) ==
  LET h == [check |-> Len(monitorChecks) + 1, healthy |-> healthy,
            wasHealthy |-> (lastStatus = "healthy"), pc |-> "entry"]
  IN
  /\ Len(monitorChecks) < MaxMonitorChecks
  /\ Cardinality(handlers) < MaxHandlers
  /\ monitorChecks' = Append(monitorChecks, healthy)
  /\ IF healthy
       THEN IF consecutiveFailures > 0
              THEN /\ alerts' = Append(alerts, [type |-> "recovery",
                                                check |-> h.check])
                   /\ handlers' = handlers \cup {[h EXCEPT !.pc = "recovery"]}
                   /\ UNCHANGED <<consecutiveFailures, lastStatus>>
              ELSE /\ consecutiveFailures' = 0
                   /\ StatusChangeDetection(h, handlers, alerts)
       ELSE /\ consecutiveFailures' = consecutiveFailures + 1
            /\ IF consecutiveFailures' >= alertThreshold
                 THEN /\ alerts' = Append(alerts, [type |-> "failure",
                                                   check |-> h.check])
                      /\ handlers' =
                           handlers \cup {[h EXCEPT !.pc = "failure"]}
                      /\ UNCHANGED lastStatus
                 ELSE StatusChangeDetection(h, handlers, alerts)
  /\ UNCHANGED outsideMonitor

\* the sendAlert a call of handleStatusChange awaits has returned: the call
\* goes on to its next await, or returns
AlertSent(h) ==
  /\ h \in handlers
  /\ consecutiveFailures' =
       IF h.pc = "recovery" THEN 0 ELSE consecutiveFailures
  /\ IF h.pc = "status_change"
       THEN /\ lastStatus' = IF h.healthy THEN "healthy" ELSE "unhealthy"
            /\ handlers' = handlers \ {h}
            /\ UNCHANGED alerts
       ELSE StatusChangeDetection(h, handlers \ {h}, alerts)
  /\ UNCHANGED <<outsideMonitor, monitorChecks>>

MonitorInit == Init /\ network = "steady"

MonitorNext ==
  \/ \E healthy \in BOOLEAN : CheckCompletes(healthy)
  \/ \E h \in handlers : AlertSent(h)

MonitorSpec == MonitorInit /\ [][MonitorNext]_vars

\* ============================================================= demo server
\* The demo deployment server (src/unnamed/part_000): POST /api/deploy and
\* the async startDeploymentProcess it starts, which runs from one sleep to
\* the next.  A call in flight is [id, agent, step]: agent 0 awaits the
\* first sleep(1000); agent 1..4 at step 0..4 awaits a sleep(agent.duration
\* / steps) and at step 5 the sleep(500) after the agent's completion;
\* agent 5 awaits the last sleep(1500).  Times are in units of 100 ms; a
\* version is its three components.

\* startDeploymentProcess's agents
agents ==
  <<[id |-> "guardian", duration |-> 30],
    [id |-> "speedster", duration |-> 20],
    [id |-> "detective", duration |-> 35],
    [id |-> "architect", duration |-> 25]>>

\* what io.emit sends
ProgressEvent(d, n) ==
  [deployment |-> d, type |-> "deployment-progress", progress |-> n,
   agent |-> "none", status |-> "none"]
AgentEvent(d, id, status) ==
  [deployment |-> d, type |-> "agent-update", progress |-> 0,
   agent |-> id, status |-> status]
CompleteEvent(d) ==
  [deployment |-> d, type |-> "deployment-complete", progress |-> 0,
   agent |-> "none", status |-> "none"]

\* mutant of DeployRefused: every request is accepted
DeployRefused_Never(state) == FALSE

\* POST /api/deploy: the request is refused while a deployment is running
DeployRefused(state) == state.isDeploying

\* POST /api/deploy.  An accepted request starts startDeploymentProcess,
\* which emits its first progress and awaits sleep(1000)
postApiDeploy ==
  /\ IF DeployRefused(deploymentState)
       THEN /\ postResponse' = 400
            /\ UNCHANGED <<deploymentState, processes, accepted, emits>>
       ELSE /\ accepted < MaxDeployments
            /\ postResponse' = 200
            /\ accepted' = accepted + 1
            /\ deploymentState' =
                 [deploymentState EXCEPT !.isDeploying = TRUE,
                                         !.progress = 0,
                                         !.completedAgents = <<>>]
            /\ processes' =
                 processes \cup {[id |-> accepted', agent |-> 0, step |-> 0]}
            /\ emits' = Append(emits, ProgressEvent(accepted', 5))
  /\ UNCHANGED <<outsideServer, clock>>

\* the sleep a call awaits, in units of 100 ms
SleepOf(p) ==
  IF p.agent = 0 THEN 10
  ELSE IF p.agent = 5 THEN 15
  ELSE IF p.step = 5 THEN 5
  ELSE agents[p.agent].duration \div 5

\* an agent is activated: agent-update, and progress baseProgress + 5
Activate(p, a) ==
  /\ deploymentState' = [deploymentState EXCEPT !.activeAgent = agents[a].id]
  /\ emits' = emits \o <<AgentEvent(p.id, agents[a].id, "active"),
                           ProgressEvent(p.id, (a - 1) * 25 + 5)>>
  /\ processes' = (processes \ {p}) \cup {[p EXCEPT !.agent = a, !.step = 0]}

\* the sleep a call of startDeploymentProcess awaits has ended: the call
\* runs to its next sleep, or to its end
DeploymentResumes(p) ==
  LET baseProgress == (p.agent - 1) * 25 IN
  /\ p \in processes
  /\ clock' = clock + SleepOf(p)
  /\ CASE p.agent = 0 -> Activate(p, 1)
       [] p.agent \in 1..4 /\ p.step < 4 ->
            /\ emits' = Append(emits, ProgressEvent(
                                  p.id, baseProgress + (p.step + 1) * 5))
            /\ processes' =
                 (processes \ {p}) \cup {[p EXCEPT !.step = p.step + 1]}
            /\ UNCHANGED deploymentState
       [] p.agent \in 1..4 /\ p.step = 4 ->
            /\ emits' = emits \o
                 <<ProgressEvent(p.id, baseProgress + 25),
                   AgentEvent(p.id, agents[p.agent].id, "complete"),
                   ProgressEvent(p.id, baseProgress + 25)>>
            /\ deploymentState' =
                 [deploymentState EXCEPT !.completedAgents =
                    Append(@, agents[p.agent].id)]
            /\ processes' = (processes \ {p}) \cup {[p EXCEPT !.step = 5]}
       [] p.agent \in 1..3 /\ p.step = 5 -> Activate(p, p.agent + 1)
       [] p.agent = 4 /\ p.step = 5 ->
            /\ emits' = Append(emits, ProgressEvent(p.id, 95))
            /\ processes' =
                 (processes \ {p}) \cup {[p EXCEPT !.agent = 5, !.step = 0]}
            /\ UNCHANGED deploymentState
       [] p.agent = 5 ->
            /\ deploymentState' =
                 [deploymentState EXCEPT
                    !.currentVersion = NextPatch(@),
                    !.lastDeployment = <<clock'>>,
                    !.isDeploying = FALSE,
                    !.activeAgent = "null"]
            /\ emits' = Append(emits, CompleteEvent(p.id))
            /\ processes' = processes \ {p}
  /\ UNCHANGED <<outsideServer, accepted, postResponse>>

ServerInit == Init /\ network = "steady"

ServerNext ==
  \/ postApiDeploy
  \/ \E p \in processes : DeploymentResumes(p)

ServerSpec == ServerInit /\ [][ServerNext]_vars

\* ================================================================ DNS cache
\* PerformanceOptimizer's DNS cache (src/performance-optimizer.js):
\* warmupDNSCache and resolveDNSWithCache.  An entry of dnsCache is Null
\* (Map.get gives undefined) or one record [addresses, timestamp]; the
\* answers of dns.resolve4 are drawn from Addresses.  Times are in units of
\* 100 ms.  The resolutionTime that warmupDNSCache also stores is never
\* read and is left out.

\* this.dnsCacheTTL: 5 minutes
dnsCacheTTL == 3000

\* two of the domains warmupDNSCache resolves; resolveDNSWithCache is called
\* with the first
WarmupDomains == {"fogg-calendar.netlify.app", "candlefish.ai"}
Addresses == {"75.2.60.5", "99.83.190.102"}
\* the time that passes between two steps
CacheDelays == {1000, 1999}

\* mutant of CacheFresh: an entry exactly dnsCacheTTL old still counts
CacheFresh_Inclusive(cached, now) ==
  cached # Null /\ now - cached[1].timestamp <= dnsCacheTTL

\* cached && (Date.now() - cached.timestamp) < this.dnsCacheTTL
CacheFresh(cached, now) ==
  cached # Null /\ now - cached[1].timestamp < dnsCacheTTL

\* warmupDNSCache: one dns.resolve4 per domain, all started at once
warmupDNSCache ==
  /\ dnsCalls = 0
  /\ dnsCalls' = 1
  /\ dnsPending' = dnsPending \cup
       {[id |-> 1, domain |-> d, kind |-> "warmup"] : d \in WarmupDomains}
  /\ UNCHANGED <<dnsCache, dnsReturn, clock, outsideCache>>

\* resolveDNSWithCache(domain), up to its return or its await
resolveDNSWithCache(domain) ==
  /\ dnsCalls < MaxDnsCalls
  /\ dnsCalls' = dnsCalls + 1
  /\ IF CacheFresh(dnsCache[domain], clock)
       THEN /\ dnsReturn' = [domain |-> domain,
                             addresses |-> dnsCache[domain][1].addresses,
                             threw |-> FALSE, lookup |-> FALSE]
            /\ UNCHANGED dnsPending
       ELSE /\ dnsPending' = dnsPending \cup
                 {[id |-> dnsCalls', domain |-> domain, kind |-> "resolve"]}
            /\ UNCHANGED dnsReturn
  /\ UNCHANGED <<dnsCache, clock, outsideCache>>

\* dns.resolve4 answers: the caller stores the addresses with Date.now()
Resolve4Returns(l, addresses) ==
  /\ l \in dnsPending
  /\ dnsPending' = dnsPending \ {l}
  /\ dnsCache' = [dnsCache EXCEPT ![l.domain] =
                    <<[addresses |-> addresses, timestamp |-> clock]>>]
  /\ dnsReturn' = [domain |-> l.domain, addresses |-> addresses,
                   threw |-> FALSE, lookup |-> TRUE]
  /\ UNCHANGED <<dnsCalls, clock, outsideCache>>

\* dns.resolve4 rejects: resolveDNSWithCache throws, warmupDNSCache
\* catches; neither reaches dnsCache.set
Resolve4Fails(l) ==
  /\ l \in dnsPending
  /\ dnsPending' = dnsPending \ {l}
  /\ dnsReturn' = [domain |-> l.domain, addresses |-> "none",
                   threw |-> l.kind = "resolve", lookup |-> TRUE]
  /\ UNCHANGED <<dnsCache, dnsCalls, clock, outsideCache>>

\* Date.now() moves on
CacheTimePasses(d) ==
  /\ clock + d <= MaxCacheClock
  /\ clock' = clock + d
  /\ UNCHANGED <<cacheVars, outsideCache>>

CacheInit == Init /\ network = "steady"

CacheNext ==
  \/ warmupDNSCache
  \/ resolveDNSWithCache("fogg-calendar.netlify.app")
  \/ \E l \in dnsPending, a \in Addresses : Resolve4Returns(l, a)
  \/ \E l \in dnsPending : Resolve4Fails(l)
  \/ \E d \in CacheDelays : CacheTimePasses(d)

CacheSpec == CacheInit /\ [][CacheNext]_vars

\* ================================================================ claims
\* the performFailover invocations that have not returned
FailoversInProgress ==
  Cardinality({k \in 1..Len(cycles) : cycles[k].pc = "failover"})

\* C1: at most one failover attempt is in progress at any time, and
\* isFailingOver is true exactly while one is; a cycle that ends while an
\* attempt is in progress starts no second one.
C1_SingleFlight ==
  /\ FailoversInProgress <= 1
  /\ isFailingOver <=> FailoversInProgress = 1
  /\ attempts = Len(failoverHistory) + FailoversInProgress

\* a cycle has just ended, behind the guard, in a state in which
\* evaluateFailover would otherwise have started a failover
C1_Witness ==
  /\ isFailingOver
  /\ "health-check" \in emitted
  /\ Evaluate(endpoints, currentEndpoint).kind = "failover"

\* C2: when performFailover makes an endpoint the active one, that endpoint
\* is healthy.
C2_ActivatedIsHealthy ==
  "failover-completed" \in emitted => endpoints[currentEndpoint].healthy

\* C3: whenever evaluateFailover chooses an endpoint to fail over to, on
\* either path, the endpoint is healthy at that moment and is not the
\* active endpoint.
C3_SelectsHealthyOther ==
  [][attempts' = attempts + 1 =>
       /\ lastAttempt'.to \in EndpointIds
       /\ lastAttempt'.from = currentEndpoint
       /\ lastAttempt'.to # currentEndpoint
       /\ endpoints'[lastAttempt'.to].healthy]_vars

\* an attempt has been started on the optimization path
C3_Witness ==
  /\ attempts > 0
  /\ lastAttempt.reason = "optimization"
  /\ lastAttempt.to # lastAttempt.from

\* C4: a failover record has success = true exactly when at least one
\* provider update of the attempt returned success.
C4_SuccessIffSomeProvider ==
  \A i \in 1..Len(failoverHistory) :
    failoverHistory[i].success <=>
      \E r \in failoverHistory[i].providers : r.success

\* a recorded attempt in which one provider succeeded and another failed
C4_Witness ==
  \E i \in 1..Len(failoverHistory) :
    /\ failoverHistory[i].success
    /\ \E r \in failoverHistory[i].providers : ~r.success

\* C5: in a run of consecutive failed probes of an endpoint that was healthy
\* when the run began, once the run is FailoverThreshold long the endpoint
\* has gone unhealthy exactly once and 'endpoint-failed' has been emitted
\* exactly once; before that, not at all.
C5_FailsExactlyOnce ==
  \A e \in EndpointIds :
    probeRun[e].kind = "fail" /\ probeRun[e].startHealthy =>
      IF probeRun[e].len >= FailoverThreshold
      THEN /\ probeRun[e].flips = 1
           /\ probeRun[e].events = 1
           /\ ~endpoints[e].healthy
      ELSE /\ probeRun[e].flips = 0
           /\ probeRun[e].events = 0
           /\ endpoints[e].healthy

\* a run of failed probes longer than the threshold
C5_Witness ==
  \E e \in EndpointIds :
    /\ probeRun[e].kind = "fail"
    /\ probeRun[e].startHealthy
    /\ probeRun[e].len > FailoverThreshold

\* C6: in a run of consecutive successful probes of an endpoint that was
\* unhealthy when the run began, once the run is RecoveryThreshold long the
\* endpoint has gone healthy exactly once and 'endpoint-recovered' has been
\* emitted exactly once; before that, not at all.
C6_RecoversExactlyOnce ==
  \A e \in EndpointIds :
    probeRun[e].kind = "succ" /\ ~probeRun[e].startHealthy =>
      IF probeRun[e].len >= RecoveryThreshold
      THEN /\ probeRun[e].flips = 1
           /\ probeRun[e].events = 1
           /\ endpoints[e].healthy
      ELSE /\ probeRun[e].flips = 0
           /\ probeRun[e].events = 0
           /\ ~endpoints[e].healthy

\* a run of successful probes longer than the threshold
C6_Witness ==
  \E e \in EndpointIds :
    /\ probeRun[e].kind = "succ"
    /\ ~probeRun[e].startHealthy
    /\ probeRun[e].len > RecoveryThreshold

\* C7: the healthy flag goes true -> false only on a probe that ends a run
\* of at least FailoverThreshold failed probes, and false -> true only on
\* one that ends a run of at least RecoveryThreshold successful probes.
C7_NoChangeBelowThreshold ==
  [][\A e \in EndpointIds :
       /\ endpoints[e].healthy /\ ~endpoints'[e].healthy =>
            /\ probeRun'[e].kind = "fail"
            /\ probeRun'[e].len >= FailoverThreshold
            /\ endpoints'[e].consecutiveFailures >= FailoverThreshold
       /\ ~endpoints[e].healthy /\ endpoints'[e].healthy =>
            /\ probeRun'[e].kind = "succ"
            /\ probeRun'[e].len >= RecoveryThreshold
            /\ endpoints'[e].consecutiveSuccesses >= RecoveryThreshold]_vars

\* an endpoint still healthy on the success that follows a single failure
C7_Witness ==
  \E e \in EndpointIds :
    /\ endpoints[e].healthy
    /\ probeRun[e].kind = "succ"
    /\ probeRun[e].startHealthy
    /\ \E i \in 1..Len(healthHistory) :
         \E j \in 1..Len(healthHistory[i].checks) :
           /\ healthHistory[i].checks[j].endpoint = e
           /\ ~healthHistory[i].checks[j].healthy

\* C8: health-check cycles never overlap.
C8_NoOverlappingCycles == Len(cycles) <= 1

\* evaluateFailover runs in this step: the probe of the last endpoint of a
\* cycle returns
EvaluatesInStep == probeRun'[NumEndpoints] # probeRun[NumEndpoints]

\* C9: when evaluateFailover runs with the active endpoint unhealthy and no
\* other endpoint healthy, the active endpoint stays, no attempt is started,
\* no record is added and 'no-healthy-endpoints' is emitted.
C9_NoHealthyEndpoints ==
  [][/\ EvaluatesInStep
     /\ ~endpoints'[currentEndpoint].healthy
     /\ HealthyAlternatives(endpoints', currentEndpoint) = {}
     => /\ currentEndpoint' = currentEndpoint
        /\ attempts' = attempts
        /\ failoverHistory' = failoverHistory
        /\ "no-healthy-endpoints" \in emitted']_vars

\* C10: the active endpoint is always one of the configured endpoints; once
\* monitoring runs it changes only in a step that records a successful
\* failover to it, and a step that records a failed failover leaves it.
C10_ActiveChangesOnlyOnSuccess ==
  [][/\ currentEndpoint \in EndpointIds
     /\ currentEndpoint' \in EndpointIds
     /\ phase = "running" /\ currentEndpoint' # currentEndpoint =>
          /\ Len(failoverHistory') = Len(failoverHistory) + 1
          /\ failoverHistory'[Len(failoverHistory')].success
          /\ failoverHistory'[Len(failoverHistory')].to =
               EndpointName(currentEndpoint')
          /\ \E r \in failoverHistory'[Len(failoverHistory')].providers :
               r.success
     /\ /\ Len(failoverHistory') = Len(failoverHistory) + 1
        /\ ~failoverHistory'[Len(failoverHistory')].success
        => currentEndpoint' = currentEndpoint]_vars

\* an attempt in which every provider update failed has just been recorded
C10_Witness ==
  /\ "failover-failed" \in emitted
  /\ Len(failoverHistory) > 0
  /\ \A r \in failoverHistory[Len(failoverHistory)].providers : ~r.success
  /\ failoverHistory[Len(failoverHistory)].providers # {}

\* C11: every record of failoverHistory belongs to a performFailover
\* invocation that called the update of at least one provider; a failover
\* that was only considered leaves no record.
C11_RecordsHaveProviderCalls ==
  /\ \A i \in 1..Len(failoverHistory) : failoverHistory[i].providers # {}
  /\ Len(failoverHistory) <= attempts

\* one attempt is recorded, and a cycle has just ended that considered a
\* failover and started none
C11_Witness ==
  /\ Len(failoverHistory) = 1
  /\ attempts = 1
  /\ "no-healthy-endpoints" \in emitted

\* the providers verifyProviders found available
AvailableProviders == {p \in ProviderNames : available[p]}

\* the providers a list of outcomes names
Invoked(results) == {r.provider : r \in results}

\* C12: in an attempt the update of every available provider is invoked
\* exactly once, whatever the other updates do, and the update of no other
\* provider is: the outcomes recorded are one per available provider, and
\* while the attempt is in flight every available provider is either pending
\* or has its one outcome.
C12_EveryAvailableProviderOnce ==
  /\ \A i \in 1..Len(failoverHistory) :
       /\ Invoked(failoverHistory[i].providers) = AvailableProviders
       /\ Cardinality(failoverHistory[i].providers) =
            Cardinality(AvailableProviders)
  /\ \A k \in 1..Len(cycles) : cycles[k].pc = "failover" =>
       /\ cycles[k].attempt.pending \cup Invoked(cycles[k].attempt.results)
            = AvailableProviders
       /\ cycles[k].attempt.pending \cap Invoked(cycles[k].attempt.results)
            = {}
       /\ Cardinality(cycles[k].attempt.results) =
            Cardinality(Invoked(cycles[k].attempt.results))

\* a recorded attempt in which two provider updates failed, with a provider
\* that was not available
C12_Witness ==
  /\ AvailableProviders # ProviderNames
  /\ \E i \in 1..Len(failoverHistory) :
       Cardinality({r \in failoverHistory[i].providers : ~r.success}) = 2

\* the active endpoint after an attempt att in which the API calls of
\* provider p all succeed, whatever the other providers answer
ActiveIfAccepted(att, p, cur) ==
  NextActive([att EXCEPT !.pending = {},
                         !.results = {ProviderOutcome(p, TRUE)}], cur)

\* C13: when a cycle ends with the active endpoint unhealthy, another
\* endpoint healthy and no failover in progress, a failover to a healthy
\* other endpoint is started in that step, the update of at least one
\* provider is invoked with that endpoint, and the update of any invoked
\* provider, once the provider has done it, makes that endpoint the active
\* one.
C13_FailsOverWithinCycle ==
  [][/\ EvaluatesInStep
     /\ ~endpoints'[currentEndpoint].healthy
     /\ HealthyAlternatives(endpoints', currentEndpoint) # {}
     /\ ~isFailingOver
     => /\ attempts' = attempts + 1
        /\ lastAttempt'.reason = "failure"
        /\ lastAttempt'.to \in HealthyAlternatives(endpoints', currentEndpoint)
        /\ AvailableProviders # {}
        /\ \A p \in AvailableProviders :
             ActiveIfAccepted(lastAttempt', p, currentEndpoint)
               = lastAttempt'.to]_vars

\* C14: on the failure path the endpoint evaluateFailover chooses is one of
\* the endpoints other than the active one that are healthy, and none of
\* those has a lower average response time.
C14_LowestAverageAlternative ==
  phase = "selected" /\ ~endpoints[currentEndpoint].healthy =>
    LET others == {e \in DOMAIN endpoints :
                     e # currentEndpoint /\ endpoints[e].healthy}
    IN IF others = {}
       THEN attempts = 0 /\ "no-healthy-endpoints" \in emitted
       ELSE /\ attempts = 1
            /\ lastAttempt.reason = "failure"
            /\ lastAttempt.to \in others
            /\ \A f \in others :
                 endpoints[lastAttempt.to].avgResponseTime
                   <= endpoints[f].avgResponseTime

\* the endpoint chosen comes later in the array than another healthy
\* endpoint, which is slower
C14_Witness ==
  /\ phase = "selected"
  /\ ~endpoints[currentEndpoint].healthy
  /\ attempts = 1
  /\ \E f \in DOMAIN endpoints :
       /\ f # currentEndpoint
       /\ f < lastAttempt.to
       /\ endpoints[f].healthy
       /\ endpoints[f].avgResponseTime
            > endpoints[lastAttempt.to].avgResponseTime

\* C15: an attempt with reason 'optimization' starts only when the active
\* endpoint has at least StableSuccesses consecutive successes and twice the
\* target's average response time is below the active endpoint's; a cycle
\* that ends with the active endpoint healthy and short of that, or with no
\* other healthy endpoint that much faster, starts no attempt and keeps the
\* active endpoint.
C15_OptimizesOnlyWhenTwiceAsFast ==
  [][/\ attempts' = attempts + 1 /\ lastAttempt'.reason = "optimization" =>
          /\ endpoints'[currentEndpoint].healthy
          /\ endpoints'[currentEndpoint].consecutiveSuccesses
               >= StableSuccesses
          /\ 2 * endpoints'[lastAttempt'.to].avgResponseTime
               < endpoints'[currentEndpoint].avgResponseTime
     /\ /\ EvaluatesInStep
        /\ endpoints'[currentEndpoint].healthy
        /\ \/ endpoints'[currentEndpoint].consecutiveSuccesses
               < StableSuccesses
           \/ \A e \in EndpointIds \ {currentEndpoint} :
                endpoints'[e].healthy =>
                  2 * endpoints'[e].avgResponseTime
                    >= endpoints'[currentEndpoint].avgResponseTime
        => /\ attempts' = attempts
           /\ currentEndpoint' = currentEndpoint]_vars

\* a cycle has ended with the active endpoint stable and the other endpoint
\* faster, but not twice as fast: no attempt
C15_Witness ==
  /\ "health-check" \in emitted
  /\ attempts = 0
  /\ endpoints[currentEndpoint].consecutiveSuccesses >= StableSuccesses
  /\ \E e \in EndpointIds :
       /\ endpoints[e].healthy
       /\ endpoints[e].avgResponseTime
            < endpoints[currentEndpoint].avgResponseTime
       /\ 2 * endpoints[e].avgResponseTime
            >= endpoints[currentEndpoint].avgResponseTime

\* C16: the fast timer is set from the moment an endpoint is found
\* unhealthy, and once the endpoints have recovered (or a failover has
\* completed) it is no longer set: after the 'endpoint-recovered' that
\* leaves every endpoint healthy, and after 'failover-completed', the
\* controller is back at the base interval.
C16_LeavesFastModeOnRecovery ==
  /\ "endpoint-failed" \in emitted /\ "failover-completed" \notin emitted
       => fastCheckInterval = "active"
  /\ "failover-completed" \in emitted => fastCheckInterval # "active"
  /\ /\ "endpoint-recovered" \in emitted
     /\ \A e \in EndpointIds : endpoints[e].healthy
     => fastCheckInterval # "active"

\* C17: once stop() has returned no interval timer of the controller is
\* scheduled, and no performHealthChecks invocation is started.
C17_NoTimerAfterStop ==
  [][phase = "stopped" =>
       /\ healthCheckInterval # "active"
       /\ fastCheckInterval # "active"
       /\ healthCheckInterval' # "active"
       /\ fastCheckInterval' # "active"
       /\ started' = started]_vars

\* C18: the process does not exit while a failover attempt is in progress:
\* at exit isFailingOver is false, every performFailover invocation has
\* returned and every started attempt has its record.
C18_FailoverFinishesBeforeExit ==
  phase = "exited" =>
    /\ ~isFailingOver
    /\ FailoversInProgress = 0
    /\ Len(failoverHistory) = attempts

\* the sequence s without its last element
Front(s) == SubSeq(s, 1, Len(s) - 1)

\* performFailover returns in this step
FailoverEndsInStep ==
  "failover-completed" \in emitted' \/ "failover-failed" \in emitted'

\* C19: the step in which a failover ends appends its record at the end of
\* failoverHistory and drops nothing, or at the cap exactly the oldest
\* record, so that at most FailoverHistoryCap records are held, the most
\* recent ones, and no other step changes failoverHistory; the step
\* of a cycle that stores its entry appends it at the end of healthHistory,
\* drops exactly the entries older than an hour and keeps the others in
\* order, so that no entry older than an hour is held; no other step adds
\* or removes an entry.
C19_HistoriesAppendAndPrune ==
  [][/\ ~FailoverEndsInStep => failoverHistory' = failoverHistory
     /\ FailoverEndsInStep =>
          /\ Len(failoverHistory') >= 1
          /\ Len(failoverHistory') <= FailoverHistoryCap
          /\ failoverHistory'[Len(failoverHistory')].from
               = EndpointName(currentEndpoint)
          /\ failoverHistory'[Len(failoverHistory')].success
               <=> "failover-completed" \in emitted'
          /\ Front(failoverHistory') =
               IF Len(failoverHistory) < FailoverHistoryCap
               THEN failoverHistory ELSE Tail(failoverHistory)
     /\ EvaluatesInStep =>
          /\ Len(healthHistory') >= 1
          /\ \A i \in 1..Len(healthHistory') : ~healthHistory'[i].old
          /\ Front(healthHistory') =
               SelectSeq(healthHistory, LAMBDA x : ~x.old)
     /\ ~EvaluatesInStep =>
          /\ Len(healthHistory') = Len(healthHistory)
          /\ \A i \in 1..Len(healthHistory) :
               healthHistory'[i].checks = healthHistory[i].checks]_vars

\* the failover history is at its cap with a record dropped for the last
\* one, and the health history has lost an entry to pruning
C19_Witness ==
  /\ Len(failoverHistory) = FailoverHistoryCap
  /\ attempts > FailoverHistoryCap
  /\ Len(healthHistory) > 1
  /\ Len(healthHistory) < started + 1 - Len(cycles)

\* the dimensions of a check that passed
Passed(check) ==
  (IF check.local THEN 1 ELSE 0)
  + (IF 2 * check.servers >= TotalServers THEN 1 ELSE 0)
  + (IF check.online >= 1 THEN 1 ELSE 0)
  + (IF check.http THEN 1 ELSE 0)
  + (IF check.ssl THEN 1 ELSE 0)

\* the result of verify() carries a check that met the quorum
ReportsQuorum ==
  /\ verifyResult.finalState # Null
  /\ Passed(verifyResult.finalState[1]) >= QuorumSize

\* C20: verify() returns status 'success' only with a check that met the
\* quorum of 3 of the 5 dimensions, and a call of verify() that ended
\* without a check that met the quorum returned status 'timeout'.
C20_SuccessOnQuorumElseTimeout ==
  /\ verifyResult.status = "success" => ReportsQuorum
  /\ verifyPc = "settled" /\ ~ReportsQuorum => verifyResult.status = "timeout"

\* C21: a call of verify() that ends at the deadline resolves with a report
\* of status 'timeout' that carries the last observed check; verify() never
\* rejects, also when no polled check has completed before the deadline.
C21_TimeoutResolvesWithReport ==
  /\ verifyResult.status # "rejected"
  /\ verifyResult.status = "timeout" => verifyResult.finalState # Null

\* a timer callback runs at or after the deadline
DeadlineTick == ticks' = ticks + 1 /\ deadlinePassed

\* what a step does at a deadline tick and after the timer is cancelled
DeadlineStep ==
  /\ DeadlineTick =>
       /\ checkInterval' = "cleared"
       /\ verifyResult'.status = "timeout"
  /\ checkInterval = "cleared" => checksInFlight' <= checksInFlight

\* C22: every call of verify() ends; the first timer callback at or after
\* the deadline cancels the timer and produces the result with status
\* 'timeout' whatever checks are in flight, and once the timer is cancelled
\* no check is started.
C22_EndsAtDeadlineTick ==
  /\ <>(verifyPc = "settled")
  /\ [][DeadlineStep]_vars

\* C23: one call of verify() writes at most one final report, and a call
\* that has returned a report has written one, however the timer callbacks
\* and their checks interleave.
C23_OneFinalReport ==
  /\ reports <= 1
  /\ verifyResult.status \in {"unknown", "success", "timeout"} => reports = 1

\* C24: a call of verify() that ended with a check that met the quorum, the
\* initial check included, reports status 'success' and the CLI exits with
\* code 0; the CLI exits with code 1 after every other call.
C24_QuorumMeansSuccessAndExitZero ==
  verifyPc = "settled" =>
    IF ReportsQuorum
      THEN verifyResult.status = "success" /\ ExitCode(verifyResult) = 0
      ELSE ExitCode(verifyResult) = 1

\* the precedence of the credential sources
SourcePrecedence == <<"environment", "file", "secrets">>

\* the source holds a complete credential set that its lookup yields
YieldsComplete(src, source) ==
  \/ source = "environment" /\ src.environment = "complete"
  \/ source = "file" /\ src.file = "complete"

\* C28: loadCredentials reads the sources in the order environment, file,
\* secret manager and stops at the first one that yields a complete
\* credential set, whose credentials it returns; it fails only when no
\* source yields one.
C28_CredentialPrecedence ==
  returned.op = "healthCheck" /\ provider \in ProviderClasses =>
    LET n == Len(consulted) IN
    /\ consulted = SubSeq(SourcePrecedence, 1, n)
    /\ \A k \in 1..(n - 1) : ~YieldsComplete(credentialSources, consulted[k])
    /\ IF \E k \in 1..3 : YieldsComplete(credentialSources, SourcePrecedence[k])
         THEN /\ credentials = "complete"
              /\ YieldsComplete(credentialSources, consulted[n])
         ELSE credentials = "null" /\ n = 3

RecordsOf(z, subdomain) == {k \in 1..Len(z) : z[k].name = subdomain}

\* what a call of createRecord for a subdomain and a target has to do
CreatesOrUpdatesInPlace(subdomain, target) ==
  /\ requests' # <<>> /\ RecordsOf(zone, subdomain) # {}
       => requests'[1].kind = "update"
  /\ returned'.ok = "true" =>
       /\ \A k \in RecordsOf(zone', subdomain) : zone'[k].content = target
       /\ Cardinality(RecordsOf(zone', subdomain)) = 1
       /\ RecordsOf(zone, subdomain) # {} => Len(zone') = Len(zone)

\* C30: createRecord is idempotent: a record of the subdomain that exists
\* is updated in place, otherwise one is created, so that after a call
\* that succeeded, and after the same call made again, the zone holds a
\* single CNAME record of the subdomain, with the target.
C30_CreateRecordIdempotent ==
  [][\A subdomain \in Subdomains : \A target \in Targets :
       \A answer \in RecordAnswers :
         createRecord(subdomain, target, answer)
           => CreatesOrUpdatesInPlace(subdomain, target)
    ]_vars

\* the health checks configureDNS has made, in order
HealthChecks == SelectSeq(operations, LAMBDA o : o.op = "healthCheck")

\* configureDNS has reached the backup strategies
InBackup ==
  \/ managerPc \in {"useNetlifyRedirect", "createAlternativeSubdomain"}
  \/ configureResult.method \in
       {"netlify_redirect", "alternative_subdomain", "proxy_server"}

\* the providers of the chain
ChainProviders == {Chain[k] : k \in 1..Len(Chain)}

\* C27: configureDNS attempts the providers in the order of the chain, a
\* provider only after every earlier one has failed; after a provider has
\* succeeded no later one is attempted and monitoring is started once; the
\* backup strategy runs only after all three have failed.
C27_ChainOrder ==
  LET n == Len(HealthChecks) IN
  /\ n <= Len(Chain)
  /\ \A k \in 1..n : HealthChecks[k].provider = Chain[k]
  /\ \A k \in 1..(n - 1) : Chain[k] \in failedProviders
  /\ monitoringStarts <= 1
  /\ configureResult.method \in ChainProviders <=> monitoringStarts = 1
  /\ configureResult.method \in ChainProviders =>
       /\ configureResult.method = Chain[n]
       /\ configureResult.method \notin failedProviders
       /\ ~InBackup
  /\ InBackup => failedProviders = ChainProviders /\ monitoringStarts = 0

\* the backup strategies have run after the first provider was healthy,
\* made its record and failed verification, and the two others failed
C27_Witness ==
  /\ managerPc = "returned"
  /\ InBackup
  /\ Len(HealthChecks) = Len(Chain)
  /\ HealthChecks[1].ok
  /\ \E k \in 1..Len(operations) :
       operations[k].op = "createRecord" /\ operations[k].ok

\* every provider of the chain has reported unhealthy
AllUnavailable ==
  /\ Len(HealthChecks) = Len(Chain)
  /\ \A k \in 1..Len(Chain) : ~HealthChecks[k].ok

\* C25: when every provider is unavailable, configureDNS returns a result
\* with success false that names a direct or manual access URL, and the CLI
\* exits with code 1.
C25_AllUnavailableReturnsFailure ==
  managerPc = "returned" /\ AllUnavailable =>
    /\ ~configureResult.success
    /\ configureResult.url # "none"
    /\ ManagerExitCode(configureResult) = 1

\* C26: after a provider's health check has failed, no operation is invoked
\* on that provider for the rest of the run, in the chain or in the backup
\* strategies.
C26_UnhealthyProviderExcluded ==
  \A j \in 1..Len(operations) : \A k \in (j + 1)..Len(operations) :
    operations[j].op = "healthCheck" /\ ~operations[j].ok
      => operations[k].provider # operations[j].provider

\* the provider classes that have a findExistingRecord
LookupClasses == {"Cloudflare", "Netlify DNS"}

\* C31: after a createRecord that succeeded, findExistingRecord of the same
\* provider, asked for the same subdomain, returns a record whose target is
\* the target that was given to createRecord.
C31_LookupReturnsTarget ==
  provider \in LookupClasses /\ returned.op = "createRecord"
    /\ returned.ok = "true"
    => /\ requests # <<>>
       /\ findExistingRecord(zone, requests[1].name) # 0
       /\ zone[findExistingRecord(zone, requests[1].name)].content
            = requests[1].content

\* a record that pointed elsewhere has been given a new target
C31_Witness ==
  /\ provider \in LookupClasses
  /\ returned.op = "createRecord" /\ returned.ok = "true"
  /\ requests # <<>> /\ requests[1].kind = "update"
  /\ requests[1].content = "fogg-calendar.netlify.app"

\* an answer of the status endpoint to a poll of the deployment
StatusAnswer(r) ==
  LET elapsed == r.timestamp - deployResponse[1].startTime IN
  /\ r.statusCode = 200
  /\ r.progress \in 0..100
  /\ r.isComplete <=> elapsed >= TOTAL_DEPLOYMENT_TIME
  /\ r.version = (IF r.isComplete THEN deployResponse[1].version
                  ELSE CURRENT_VERSION)

\* C32: every poll of a deployment with the deploymentId and startTime the
\* POST returned is answered 200 with a progress within 0..100 that no later
\* poll undercuts, and is complete, with the incremented version, exactly
\* when 30 seconds or more have passed since startTime.
C32_StatusProgress ==
  /\ [](statusResponse # Null => StatusAnswer(statusResponse[1]))
  /\ [][statusResponse # Null /\ statusResponse' # Null
          => statusResponse'[1].progress >= statusResponse[1].progress]_vars

\* a poll at 30 seconds or later
C32_Witness ==
  /\ statusResponse # Null
  /\ statusResponse[1].isComplete
  /\ statusResponse[1].progress = 100
  /\ statusResponse[1].version = <<2, 4, 2>>
  /\ statusResponse[1].timestamp - deployResponse[1].startTime
       = TOTAL_DEPLOYMENT_TIME

\* the verification step ran, and did not end with success: verify()
\* rejected or resolved with status 'timeout'
VerificationFailed ==
  /\ FindStep(steps, "verification") # Null
  /\ FindStep(steps, "verification")[1].result \notin {"success", "unknown"}

\* C33: the orchestrator reports 'DNS_FIXED' only when configureDNS returned
\* success and the verification, if it ran, ended with success; when the
\* configuration or the verification did not succeed it has deployed the
\* backup strategies and reports 'BACKUP_ACTIVE' or 'FAILED'.
C33_FixedOnlyWhenVerified ==
  /\ finalStatus = "DNS_FIXED" =>
       /\ FindStep(steps, "dns_fix") # Null
       /\ FindStep(steps, "dns_fix")[1].success
       /\ ~VerificationFailed
  /\ fixerPc = "returned" /\ VerificationFailed =>
       /\ FindStep(steps, "backup") # Null
       /\ finalStatus \in {"BACKUP_ACTIVE", "FAILED"}

\* the backup step is never awaited, and the orchestrator never reports
\* 'BACKUP_ACTIVE' or 'FAILED'
FixerNeverDeploysBackup ==
  /\ fixerPc # "backup"
  /\ finalStatus \notin {"BACKUP_ACTIVE", "FAILED"}

\* C34: verifyDNSPropagation returns success, or returns a failure once
\* verificationTimeout has elapsed; it returns no failure before that.
C34_NoFailureBeforeTimeout ==
  propagationPc = "returned" /\ ~propagationResult.success
    => clock - startTime >= verificationTimeout

\* the unhealthy checks, up to and with check k, since the last healthy
\* one
UnhealthyRun(k) ==
  LET healthyBefore == {j \in 1..k : monitorChecks[j]} IN
  IF healthyBefore = {} THEN k
  ELSE k - (CHOOSE j \in healthyBefore : \A i \in healthyBefore : i <= j)

\* the alerts of a type sent for check k
AlertsFor(type, k) ==
  {a \in 1..Len(alerts) : alerts[a].type = type /\ alerts[a].check = k}

\* C35: once the handling of the checks has ended, consecutiveFailures is
\* the number of unhealthy checks since the last healthy one, and a
\* 'failure' alert is sent for an unhealthy check exactly when that number
\* has reached alertThreshold with it.
C35_ConsecutiveFailuresCounted ==
  /\ handlers = {} => consecutiveFailures = UnhealthyRun(Len(monitorChecks))
  /\ \A k \in 1..Len(monitorChecks) :
       AlertsFor("failure", k) # {}
         <=> ~monitorChecks[k] /\ UnhealthyRun(k) >= alertThreshold

\* C36: one 'recovery' alert is sent for a healthy check that directly
\* follows an unhealthy one, and none for any other check, also when the
\* handling of health checks overlaps.
C36_OneRecoveryAlertPerOutage ==
  \A k \in 1..Len(monitorChecks) :
    Cardinality(AlertsFor("recovery", k)) =
      IF monitorChecks[k] /\ k > 1 /\ ~monitorChecks[k - 1] THEN 1 ELSE 0

\* C37: at most one deployment runs at a time; a POST /api/deploy received
\* while isDeploying is true is answered 400 and changes no deployment
\* state; the completion of a deployment increments the patch component of
\* currentVersion by exactly 1 and resets isDeploying.
C37_SingleDeployment ==
  /\ [](Cardinality(processes) <= 1)
  /\ [][/\ postApiDeploy /\ deploymentState.isDeploying
             => /\ postResponse' = 400
                /\ UNCHANGED <<deploymentState, processes, emits>>
        /\ Len(emits') > Len(emits)
             /\ emits'[Len(emits')].type = "deployment-complete"
             => /\ deploymentState'.currentVersion =
                     [deploymentState.currentVersion EXCEPT ![3] = @ + 1]
                /\ ~deploymentState'.isDeploying
       ]_vars

\* a request was refused during the second deployment, which runs on the
\* version the first one left
C37_Witness ==
  /\ postResponse = 400
  /\ processes # {}
  /\ accepted = 2
  /\ deploymentState.currentVersion = <<2, 4, 2>>
  /\ deploymentState.isDeploying

\* the progress values emitted for deployment d, in order
ProgressOf(d) ==
  SelectSeq(emits, LAMBDA e :
              e.deployment = d /\ e.type = "deployment-progress")

\* the agents completed for deployment d, in order
CompletedOf(d) ==
  SelectSeq(emits, LAMBDA e :
              e.deployment = d /\ e.type = "agent-update"
                /\ e.status = "complete")

\* C38: within one deployment the progress values of successive
\* 'deployment-progress' events never decrease and stay within 0..100, and
\* the agents are completed in the order guardian, speedster, detective,
\* architect, all four before 'deployment-complete' is emitted.
C38_ProgressMonotone ==
  \A d \in 1..accepted :
    /\ \A i \in 1..Len(ProgressOf(d)) :
         /\ ProgressOf(d)[i].progress \in 0..100
         /\ \A j \in 1..(i - 1) :
              ProgressOf(d)[j].progress <= ProgressOf(d)[i].progress
    /\ \A i \in 1..Len(CompletedOf(d)) :
         CompletedOf(d)[i].agent = agents[i].id
    /\ CompleteEvent(d) \in {emits[k] : k \in 1..Len(emits)}
         => Len(CompletedOf(d)) = Len(agents)

\* the domain resolveDNSWithCache is called with
CachedDomain == "fogg-calendar.netlify.app"

\* C39: resolveDNSWithCache performs a DNS lookup only when the domain has
\* no cache entry or its entry is at least dnsCacheTTL old, and then stores
\* the fresh addresses with a new timestamp; otherwise it returns the
\* cached addresses and leaves the cache unchanged; a failed lookup never
\* overwrites or removes an entry.
C39_CacheLookup ==
  [][/\ resolveDNSWithCache(CachedDomain)
          => /\ dnsCache' = dnsCache
             /\ IF dnsCache[CachedDomain] = Null
                     \/ clock - dnsCache[CachedDomain][1].timestamp
                          >= dnsCacheTTL
                  THEN \E l \in dnsPending' \ dnsPending :
                         l.domain = CachedDomain
                  ELSE /\ dnsPending' = dnsPending
                       /\ ~dnsReturn'.lookup
                       /\ dnsReturn'.addresses =
                            dnsCache[CachedDomain][1].addresses
     /\ \A l \in dnsPending \ dnsPending' :
          IF dnsReturn'.addresses = "none"
            THEN dnsCache' = dnsCache
            ELSE dnsCache' = [dnsCache EXCEPT ![l.domain] =
                   <<[addresses |-> dnsReturn'.addresses,
                      timestamp |-> clock']>>]
    ]_vars

\* a lookup made once dnsCacheTTL had passed stored its answer under the
\* time of its return, after two earlier calls
C39_Witness ==
  /\ dnsCache[CachedDomain] # Null
  /\ dnsCache[CachedDomain][1].timestamp >= dnsCacheTTL
  /\ dnsReturn.lookup /\ ~dnsReturn.threw
  /\ dnsReturn.domain = CachedDomain
  /\ dnsCalls = MaxDnsCalls
====
